---------------------------- MODULE Spec2Model ----------------------------
(***************************************************************************)
(* Verification model of the SwingTrader deterministic core:               *)
(*   - core/conviction_engine.py  score_ticker, _build_result              *)
(*   - core/signal_tracker.py     record_signal, create_turbo_signal,      *)
(*                                check_signals, close_signal              *)
(*   - core/backtester.py         _check_outcome, run_backtest             *)
(*   - core/calibrator.py         apply_calibration, run_calibration       *)
(*                                                                         *)
(* Numbers.  Python floats are modelled by exact integers with a fixed     *)
(* scale.  Conviction engine and backtester: prices in cents, ratios such  *)
(* as rr and vol_ratio in hundredths, body_pct in thousandths.  Signal     *)
(* tracker: prices in units of 0.0001 (the code rounds them with           *)
(* round(x, 4)), percentages in hundredths of a percent (round(x, 2)).     *)
(* Calibrator: scale in 1/10000, offset and convictions in hundredths,     *)
(* win rates in tenths of a percent.  round() is Python 3's                *)
(* round-half-to-even, computed on the exact quotient.                     *)
(*                                                                         *)
(* Left out.  Signal ids are consecutive integers where the code takes     *)
(* uuid4()[:8]; timestamps are a clock of half-day ticks (even ticks fall  *)
(* in the regular session); one market status and one clock value hold     *)
(* for a whole pass of check_signals.  The free-text fields (ta_notes,     *)
(* market context, snapshots), the case reports and the Supabase mirror    *)
(* of the JSON files carry no control flow and are not modelled.           *)
(***************************************************************************)
EXTENDS Integers, Sequences, FiniteSets, TLC

VARIABLES
    \* conviction engine
    data, regime, result,
    \* signal tracker
    active, closed, clock, next_id, last_pass, workload,
    \* backtester: the forward scan and the walk-forward loop
    daily, levels, scan, outcome, walk,
    \* calibrator
    calib_file, bt, raw_conviction, call_params, calib_out,
    \* tracker calls in progress, each between its loads and its saves
    calls

scoreVars   == <<data, regime, result>>
trackerVars == <<active, closed, clock, next_id, last_pass, workload>>
outcomeVars == <<daily, levels, scan, outcome, walk>>
calibVars   == <<calib_file, bt, raw_conviction, call_params, calib_out>>
overlapVars == <<calls>>
vars        == <<scoreVars, trackerVars, outcomeVars, calibVars, overlapVars>>

None == "None"

-----------------------------------------------------------------------------
(* Arithmetic helpers                                                      *)

Min2(a, b) == IF a <= b THEN a ELSE b
Max2(a, b) == IF a >= b THEN a ELSE b
Abs(a)     == IF a < 0 THEN -a ELSE a

\* Python round(n / d) for d > 0: nearest integer, ties to the even one.
RoundHalfEven(n, d) ==
    LET q == n \div d
        r == n % d
    IN  IF 2 * r < d THEN q
        ELSE IF 2 * r > d THEN q + 1
        ELSE IF q % 2 = 0 THEN q ELSE q + 1

\* round((a - b) / b * 100, 2), in hundredths of a percent.
PctChange(a, b) == RoundHalfEven((a - b) * 10000, b)

RECURSIVE SeqMin(_, _)
\* for cap in caps: conviction = min(conviction, cap)
SeqMin(v, s) == IF s = <<>> THEN v ELSE SeqMin(Min2(v, Head(s)), Tail(s))

SeqToSet(s) == {s[k] : k \in 1..Len(s)}

-----------------------------------------------------------------------------
(* core/conviction_engine.py                                               *)

TFStates == {"BULL", "BEAR", "MIXED"}

\* int(tas_str.split("/")[0]) if "/" in tas_str else 0 (line 21), for the
\* "k/4" strings the extractors produce and for "?", a string without "/".
\* A string with "/" and no integer before it does not get here: int() raises.
tas_num(tas_str) ==
    CASE tas_str = "?" -> 0
      [] tas_str = "0/4" -> 0
      [] tas_str = "1/4" -> 1
      [] tas_str = "2/4" -> 2
      [] tas_str = "3/4" -> 3
      [] tas_str = "4/4" -> 4

\* "HARD FAIL" in earnings / "Half size" in earnings, for the three shapes
\* of earnings_warning that market_data.py builds.
EarningsHardFail == "5d-HARD FAIL"
EarningsHalfSize == "9d-Half size"
EarningsClear    == "Clear"
HasHardFail(earnings) == earnings = EarningsHardFail
HasHalfSize(earnings) == earnings = EarningsHalfSize

\* No call of score_ticker has returned yet.
NoResult == [scored |-> FALSE]
NoOutcome == [resolved |-> FALSE]
NoWalk == [pc |-> "idle"]
NoParams == [given |-> FALSE]
NoReport == [ran |-> FALSE]
NoOutput == [returned |-> FALSE]

\* load_calibration's default when no parameter file exists (line 26).
DefaultParams == [mode |-> "none", scale |-> 10000, offset |-> 0, mapping |-> <<>>]
NoCalibFile == [exists |-> FALSE, params |-> DefaultParams, updated_at |-> 0]

ZeroPillars == [p1 |-> 0, p2 |-> 0, p3 |-> 0, p4 |-> 0, p5 |-> 0]

\* trend label of _build_result: majority vote over tf_breakdown.
TrendOf(tf) ==
    LET bulls == Cardinality({k \in DOMAIN tf : tf[k] = "BULL"})
    IN  IF bulls >= 3 THEN "BULL" ELSE IF bulls <= 1 THEN "BEAR" ELSE "MIXED"

HeatOf(conviction, hard_fail) ==
    IF hard_fail THEN "Cold"
    ELSE IF conviction >= 75 THEN "TOP"
    ELSE IF conviction >= 60 THEN "Hot"
    ELSE IF conviction >= 45 THEN "Neutral"
    ELSE "Cold"

\* _build_result.  caps and raw_cv are score_ticker's locals at the return,
\* kept next to the result so that properties can speak about them; they are
\* not keys of the returned dictionary.
_build_result(d, conviction, pillars, hard_fail, hard_fail_reason, caps, raw_cv) ==
    [ ticker           |-> d.symbol,
      last_close       |-> d.last_close,
      conviction_pct   |-> conviction,
      heat             |-> HeatOf(conviction, hard_fail),
      trend            |-> TrendOf(d.tf_breakdown),
      tas              |-> d.tas,
      sl               |-> d.sl,
      tp1              |-> d.tp1,
      tp2              |-> d.tp2,
      tp3              |-> d.tp3,
      rr               |-> d.rr,
      hard_fail        |-> hard_fail,
      hard_fail_reason |-> hard_fail_reason,
      pillar_scores    |-> pillars,
      caps             |-> caps,
      raw_cv           |-> raw_cv ]

\* The early return for a snapshot that carries an error marker (lines 10-13).
ErrorResult(d) ==
    [ ticker           |-> d.symbol,
      last_close       |-> d.last_close,
      conviction_pct   |-> 0,
      heat             |-> "Cold",
      trend            |-> "MIXED",
      tas              |-> d.tas,
      sl               |-> d.sl,
      tp1              |-> d.tp1,
      tp2              |-> d.tp2,
      tp3              |-> d.tp3,
      rr               |-> d.rr,
      hard_fail        |-> TRUE,
      hard_fail_reason |-> d.error,
      pillar_scores    |-> ZeroPillars,
      caps             |-> <<>>,
      raw_cv           |-> 0 ]

\* PHASE 1, first rule: Weekly BEAR + Daily BEAR (lines 56-70).
\* Returns the (hard_fail, reason, caps) after the rule.
GateWeeklyDaily(d) ==
    LET tf == d.tf_breakdown
    IN  IF tf.tf_weekly = "BEAR" /\ tf.tf_daily = "BEAR"
        THEN IF tf.tf_65m = "BULL" /\ tf.tf_240m = "BULL" /\ d.sustained_65m.sustained
             THEN LET caps == Append(<<>>, 70)
                  IN  [hard_fail |-> FALSE, reason |-> "",
                       caps |-> IF d.near_confluence
                                THEN [caps EXCEPT ![Len(caps)] = 75]   \* caps[-1] = 75
                                ELSE caps]
             ELSE IF tf.tf_65m = "BULL" \/ tf.tf_240m = "BULL"
             THEN [hard_fail |-> FALSE, reason |-> "", caps |-> <<55>>]
             ELSE [hard_fail |-> TRUE,
                   reason |-> "Weekly BEAR + Daily BEAR, no lower TF reversal",
                   caps |-> <<>>]
        ELSE [hard_fail |-> FALSE, reason |-> "", caps |-> <<>>]

\* PHASE 1, second rule: below 150MA + Weekly BEAR (lines 73-82).
GateMa150(d, g) ==
    LET tf == d.tf_breakdown
    IN  IF d.ma150_position = "below" /\ tf.tf_weekly = "BEAR" /\ ~g.hard_fail
        THEN IF d.near_confluence /\ tf.tf_65m = "BULL" /\ d.sustained_65m.sustained
             THEN [g EXCEPT !.caps = Append(@, 65)]
             ELSE IF tf.tf_65m = "BULL" /\ tf.tf_240m = "BULL"
             THEN [g EXCEPT !.caps = Append(@, 55)]
             ELSE [g EXCEPT !.hard_fail = TRUE,
                            !.reason = "Below 150MA + Weekly BEAR, no reversal signal"]
        ELSE g

\* PHASE 1, third rule: TAS 0/4 (lines 85-87).
GateTas(d, g) ==
    IF tas_num(d.tas) = 0 /\ ~g.hard_fail
    THEN [g EXCEPT !.hard_fail = TRUE, !.reason = "TAS Full bear alignment"]
    ELSE g

\* TAS-based caps (lines 90-97).
GateCaps(d, g) ==
    LET tf == d.tf_breakdown
        c1 == IF tas_num(d.tas) = 2 THEN Append(g.caps, 65) ELSE g.caps
        c2 == IF tas_num(d.tas) = 1 THEN Append(c1, 55) ELSE c1
        c3 == IF tf.tf_weekly = "BEAR" /\ tf.tf_daily = "BULL" THEN Append(c2, 65) ELSE c2
        c4 == IF d.ma150_position = "below" /\ tf.tf_weekly # "BEAR"
              THEN Append(c3, 70) ELSE c3
    IN  [g EXCEPT !.caps = c4]

\* The whole MTF gate, in the order of the code.
MTFGate(d) == GateCaps(d, GateTas(d, GateMa150(d, GateWeeklyDaily(d))))

\* P1 - Trend & Cloud (lines 107-139).  weighted_bull is in tenths.
P1Score(d) ==
    LET tf == d.tf_breakdown
        weighted_bull ==
            (IF tf.tf_65m = "BULL" THEN 15 ELSE 0) + (IF tf.tf_240m = "BULL" THEN 15 ELSE 0)
          + (IF tf.tf_daily = "BULL" THEN 10 ELSE 0) + (IF tf.tf_weekly = "BULL" THEN 10 ELSE 0)
        base == IF weighted_bull >= 40 THEN 90
                ELSE IF weighted_bull >= 30 THEN 75
                ELSE IF weighted_bull >= 20 THEN 60
                ELSE IF weighted_bull >= 15 THEN 45
                ELSE 30
        clouded == IF d.cloud_position = "above" THEN Min2(base + 5, 100) ELSE base
        clamped == Max2(0, Min2(100, clouded))
        bull_candles == d.sustained_65m.bull_candles
    IN  IF bull_candles >= 5 THEN Min2(clamped + 8, 100)
        ELSE IF bull_candles >= 3 THEN Min2(clamped + 4, 100)
        ELSE clamped

\* Cloud caps collected while P1 is computed (lines 124-129).
P1Caps(d, caps) ==
    IF d.cloud_position = "inside" THEN Append(caps, 65)
    ELSE IF d.cloud_position = "below" THEN Append(caps, 45)
    ELSE caps

\* in_fvg (lines 165-166).
InBullishFvg(d) ==
    \E k \in 1..Len(d.fvg_zones) :
        /\ d.fvg_zones[k].type = "bullish"
        /\ d.fvg_zones[k].bottom <= d.last_close
        /\ d.last_close <= d.fvg_zones[k].top

\* poc > 0 and abs(close - poc) / close < 0.005 (line 173), for close > 0.
NearPoc(d) ==
    LET poc == d.vol_profile.poc
    IN  poc > 0 /\ Abs(d.last_close - poc) * 1000 < 5 * d.last_close

\* P2 - Price Structure (lines 144-188).
P2Score(d) ==
    LET coil == IF d.coil_data.coil5 THEN 25
                ELSE IF d.coil_data.coil3 \/ d.coiling THEN 15 ELSE 0
        body == IF d.body_pct > 500 THEN 10 ELSE 0
        bull == IF d.bull_body THEN 5 ELSE 0
        doji == IF d.is_doji THEN 10 ELSE 0
        lr   == IF d.lr_channel.at_lower THEN 15 ELSE 0
        fvg  == IF InBullishFvg(d) THEN 12 ELSE 0
        poc  == IF NearPoc(d) THEN 10 ELSE 0
        conf == IF d.near_confluence THEN 15 ELSE 0
    IN  Max2(0, Min2(100, 50 + coil + body + bull - doji + lr + fvg + poc + conf))

\* Yellow Candle Exhaustion cap (lines 183-186).
P2Caps(d, caps) ==
    IF d.long_upper_wick /\ d.body_pct < 150 /\ d.vol_ratio > 180
    THEN Append(caps, 60) ELSE caps

\* P3 - Institutional Flow (lines 194-219).
P3Score(d) ==
    LET n == tas_num(d.tas)
        branch ==
            IF d.vol_direction = "ACCUMULATION" /\ n >= 3 THEN 85
            ELSE IF d.vol_direction = "ACCUMULATION" /\ n < 3 THEN 65
            ELSE IF d.vol_direction = "DISTRIBUTION"
                 THEN IF d.body_pct < 250 /\ d.vol_ratio > 200 THEN 70 ELSE 45
            ELSE IF d.vol_ratio < 130 THEN 35
            ELSE 60
    IN  IF d.vol_ratio > 300 /\ n <= 2 THEN Min2(branch, 35) ELSE branch

\* P4 - Risk/Reward Geometry, for rr >= 1.5 (lines 229-234).
P4Score(d, min_rr) ==
    IF d.rr < min_rr THEN 40
    ELSE IF d.rr >= 300 THEN 90
    ELSE IF d.rr >= 250 THEN 80
    ELSE IF d.rr >= 200 THEN 70
    ELSE 50

P4Caps(d, min_rr, caps) == IF d.rr < min_rr THEN Append(caps, 55) ELSE caps

\* P5 - Catalyst & Timing, when there is no blackout (lines 239-247).
P5Score(d) == IF HasHalfSize(d.earnings_warning) THEN 50 ELSE 80

\* raw_cv = round(p1*0.25 + p2*0.25 + p3*0.20 + p4*0.20 + p5*0.10) (line 253).
RawConviction(p) ==
    RoundHalfEven(25 * p.p1 + 25 * p.p2 + 20 * p.p3 + 20 * p.p4 + 10 * p.p5, 100)

\* A bug that would let only the cap collected last bound the score.
ApplyLastCapOnly(raw_cv, caps) ==
    IF caps = <<>> THEN raw_cv ELSE Min2(raw_cv, caps[Len(caps)])

\* The cap reducer of the synthesis (lines 254-256).
ApplyCaps(raw_cv, caps) == SeqMin(raw_cv, caps)

\* A bug that would let a hard-failed result keep the score of its pillars.
HardFailKeepsScore(d, pillars, hard_fail_reason, caps) ==
    _build_result(d, RawConviction(pillars), pillars, TRUE, hard_fail_reason, caps, 0)

\* The three hard-fail returns (lines 99-101, 225-228, 240-244): conviction 0.
HardFailResult(d, pillars, hard_fail_reason, caps) ==
    _build_result(d, 0, pillars, TRUE, hard_fail_reason, caps, 0)

\* f["type"], f["bottom"], f["top"] on an imbalance zone that lacks the key
\* (lines 165-166): every zone is asked for its type; the bullish ones are
\* tried in order until one contains the close, bottom first, top only when
\* bottom <= close.
FvgKeyError(d) ==
    LET z == d.fvg_zones
        Bull(k) == z[k].type = "bullish"
        Faults(k) == \/ "bottom" \notin DOMAIN z[k]
                     \/ (z[k].bottom <= d.last_close /\ "top" \notin DOMAIN z[k])
        Matches(k) == z[k].bottom <= d.last_close /\ d.last_close <= z[k].top
    IN  \/ \E k \in 1..Len(z) : "type" \notin DOMAIN z[k]
        \/ \E k \in 1..Len(z) :
              /\ Bull(k)
              /\ \A j \in 1..(k - 1) : Bull(j) => (~Faults(j) /\ ~Matches(j))
              /\ Faults(k)

\* The exception that leaves score_ticker on snapshot d, None when it returns:
\* int() of a non-numeric count (line 21), lr_channel['lower_2sd'] (line 162),
\* a zone key (lines 165-166), the division by close (line 173).  The gate's
\* hard-fail return (line 99) comes before the last three.
RaisedBy(d) ==
    IF d.has_error THEN None
    ELSE IF d.tas = "N/A" THEN "ValueError"
    ELSE IF MTFGate(d).hard_fail THEN None
    ELSE IF d.lr_channel.at_lower /\ "lower_2sd" \notin DOMAIN d.lr_channel THEN "KeyError"
    ELSE IF FvgKeyError(d) THEN "KeyError"
    ELSE IF d.vol_profile.poc > 0 /\ d.last_close = 0 THEN "ZeroDivisionError"
    ELSE None

\* score_ticker(data, regime).
score_ticker(d, rg) ==
    IF d.has_error THEN ErrorResult(d)
    ELSE
    LET g     == MTFGate(d)
        p1    == P1Score(d)
        caps1 == P1Caps(d, g.caps)
        p2    == P2Score(d)
        caps2 == P2Caps(d, caps1)
        p3    == P3Score(d)
        p4    == P4Score(d, rg.min_rr)
        caps4 == P4Caps(d, rg.min_rr, caps2)
        p5    == P5Score(d)
        pillars == [p1 |-> p1, p2 |-> p2, p3 |-> p3, p4 |-> p4, p5 |-> p5]
        raw_cv  == RawConviction(pillars)
    IN  IF g.hard_fail
        THEN HardFailResult(d, ZeroPillars, g.reason, g.caps)
        ELSE IF d.rr < 150
        THEN HardFailResult(d, [pillars EXCEPT !.p4 = 0, !.p5 = 0],
                            "R:R below absolute min 1.5:1", caps2)
        ELSE IF HasHardFail(d.earnings_warning)
        THEN HardFailResult(d, [pillars EXCEPT !.p5 = 0], "Earnings HARD FAIL", caps4)
        ELSE _build_result(d, ApplyCaps(raw_cv, caps4), pillars, FALSE, "", caps4, raw_cv)

-----------------------------------------------------------------------------
(* Inputs of the conviction engine                                         *)

MaxBullCandles == 5

\* sustained_65m as backtester._compute_indicators builds it (lines 123-129).
SustainedOf(bull_candles) ==
    [sustained |-> bull_candles >= 3, bull_candles |-> bull_candles]

TfBreakdowns ==
    [tf_65m : TFStates, tf_240m : TFStates, tf_daily : TFStates, tf_weekly : TFStates]

AllBull == [tf_65m |-> "BULL", tf_240m |-> "BULL", tf_daily |-> "BULL", tf_weekly |-> "BULL"]

TasStrings == {"0/4", "1/4", "2/4", "3/4", "4/4"}

FvgChoices ==
    { <<>>,
      <<[type |-> "bullish", bottom |-> 9900, top |-> 10100]>>,
      <<[type |-> "bearish", bottom |-> 9900, top |-> 10100],
        [type |-> "bullish", bottom |-> 10200, top |-> 10300]>> }

\* A fully aligned snapshot with strong pillars; the families below vary it.
BaseSnapshot ==
    [ has_error        |-> FALSE,
      error            |-> "",
      symbol           |-> "AAA",
      last_close       |-> 10000,
      tf_breakdown     |-> AllBull,
      tas              |-> "4/4",
      ma150_position   |-> "above",
      cloud_position   |-> "above",
      vol_ratio        |-> 160,
      vol_direction    |-> "ACCUMULATION",
      rr               |-> 300,
      coiling          |-> FALSE,
      body_pct         |-> 600,
      is_doji          |-> FALSE,
      long_upper_wick  |-> FALSE,
      bull_body        |-> TRUE,
      earnings_warning |-> EarningsClear,
      sustained_65m    |-> SustainedOf(MaxBullCandles),
      lr_channel       |-> [at_lower |-> TRUE, lower_2sd |-> 9800],
      fvg_zones        |-> <<>>,
      vol_profile      |-> [poc |-> 0],
      coil_data        |-> [coil5 |-> TRUE, coil3 |-> TRUE],
      near_confluence  |-> FALSE,
      sl               |-> 9900,
      tp1              |-> 10300,
      tp2              |-> 10450,
      tp3              |-> 10970 ]

\* Every timeframe combination against every gate input.
GateFamily ==
    { [BaseSnapshot EXCEPT !.tf_breakdown = tf, !.tas = t, !.ma150_position = m,
                           !.cloud_position = c, !.near_confluence = nc,
                           !.sustained_65m = SustainedOf(bc)] :
        tf \in TfBreakdowns, t \in TasStrings, m \in {"above", "below"},
        c \in {"above", "inside", "below"}, nc \in BOOLEAN, bc \in {0, 3} }

CoilChoices ==
    { [coil_data |-> [coil5 |-> TRUE, coil3 |-> TRUE], coiling |-> TRUE],
      [coil_data |-> [coil5 |-> FALSE, coil3 |-> TRUE], coiling |-> FALSE],
      [coil_data |-> [coil5 |-> FALSE, coil3 |-> FALSE], coiling |-> TRUE],
      [coil_data |-> [coil5 |-> FALSE, coil3 |-> FALSE], coiling |-> FALSE] }

\* Every input of pillar 2.
P2Family ==
    { [BaseSnapshot EXCEPT !.coil_data = cd.coil_data, !.coiling = cd.coiling, !.body_pct = b,
                           !.bull_body = bb, !.is_doji = dj, !.long_upper_wick = lw,
                           !.lr_channel = [at_lower |-> al, lower_2sd |-> 9800],
                           !.fvg_zones = fz,
                           !.vol_profile = [poc |-> pc], !.near_confluence = nc,
                           !.vol_ratio = vr] :
        cd \in CoilChoices, b \in {100, 200, 600}, bb \in BOOLEAN, dj \in BOOLEAN,
        lw \in BOOLEAN, al \in BOOLEAN, fz \in FvgChoices, pc \in {0, 10020, 10500},
        nc \in BOOLEAN, vr \in {100, 250} }

\* Every input of pillar 3.
P3Family ==
    { [BaseSnapshot EXCEPT !.vol_ratio = vr, !.vol_direction = vd, !.tas = t,
                           !.body_pct = b] :
        vr \in {100, 130, 190, 250, 350},
        vd \in {"ACCUMULATION", "DISTRIBUTION", "NEUTRAL"},
        t \in TasStrings, b \in {100, 200, 600} }

\* Every input of pillars 4 and 5, on a strong and on a weak snapshot.
P45Family ==
    { [BaseSnapshot EXCEPT !.rr = r, !.earnings_warning = e, !.cloud_position = c] :
        r \in {100, 149, 150, 180, 220, 250, 270, 300},
        e \in {EarningsClear, EarningsHalfSize, EarningsHardFail},
        c \in {"above", "below"} }

\* A snapshot carrying the extractor's error marker.
ErrorFamily ==
    { [BaseSnapshot EXCEPT !.has_error = TRUE, !.error = e, !.cloud_position = c] :
        e \in {"No data for AAA", "timed out"}, c \in {"above", "below"} }

\* Well-typed snapshots no extractor builds: a tas string without a count, a
\* last price of 0 (the default of a missing one), a regression channel or an
\* imbalance zone lacking keys; on timeframes all bullish, all bearish or
\* missing (MIXED is the default of a missing timeframe).
MalformedFamily ==
    { [BaseSnapshot EXCEPT !.tas = t, !.last_close = lc, !.lr_channel = lr, !.fvg_zones = fz,
                           !.vol_profile = [poc |-> pc], !.tf_breakdown = tf] :
        t \in {"4/4", "?", "N/A"}, lc \in {0, 10000},
        lr \in {[at_lower |-> TRUE], [at_lower |-> FALSE],
                [at_lower |-> TRUE, lower_2sd |-> 9800]},
        fz \in {<<>>, <<[type |-> "bullish"]>>, <<[bottom |-> 9900, top |-> 10100]>>,
                <<[type |-> "bullish", bottom |-> 9900]>>,
                <<[type |-> "bearish"], [type |-> "bullish", bottom |-> 9900, top |-> 10100]>>},
        pc \in {0, 10020},
        tf \in {AllBull, [k \in DOMAIN AllBull |-> "BEAR"], [k \in DOMAIN AllBull |-> "MIXED"]} }

\* Every cloud position on an aligned snapshot, with and without the
\* structural extras (channel floor, confluence, sustained 65m trend).
CloudFamily ==
    { [BaseSnapshot EXCEPT !.cloud_position = c, !.ma150_position = m,
                           !.lr_channel = [at_lower |-> al, lower_2sd |-> 9800],
                           !.near_confluence = nc,
                           !.sustained_65m = SustainedOf(bc)] :
        c \in {"above", "inside", "below"}, m \in {"above", "below"},
        al \in BOOLEAN, nc \in BOOLEAN, bc \in {0, MaxBullCandles} }

Snapshots ==
    GateFamily \cup P2Family \cup P3Family \cup P45Family \cup ErrorFamily
    \cup MalformedFamily \cup CloudFamily

\* min_rr of market_data.fetch_market_regime.
Regimes ==
    { [regime |-> "Trending Bull", min_rr |-> 200],
      [regime |-> "Choppy / Range", min_rr |-> 250],
      [regime |-> "Trending Bear", min_rr |-> 300] }

-----------------------------------------------------------------------------
(* core/signal_tracker.py                                                  *)
(*                                                                         *)
(* Prices are integers in units of 0.0001, the resolution every stored     *)
(* price has after round(x, 4).  Times are whole days (bars_held is the    *)
(* .days of a time difference).  The store is the pair of documents        *)
(* load_active/save_active and load_closed/save_closed read and write.     *)

NoValue == -1

TimeoutDays == 30

Statuses == {"OPEN", "STOPPED_OUT", "TP1_HIT", "TP3_HIT", "TIMEOUT", "MANUAL_CLOSE"}
TerminalStatuses == Statuses \ {"OPEN"}

Sessions == {"regular", "closed"}

\* The clock counts half-days: even ticks fall in the regular session of a
\* trading day, odd ticks after its close.
TicksPerDay == 2
SessionAt(now) == IF now % TicksPerDay = 0 THEN "regular" ELSE "closed"

\* (datetime.utcnow() - entry_dt).days
DaysHeld(now, entry_time) == (now - entry_time) \div TicksPerDay

\* _is_us_market_open()["market_open"]
MarketOpen(session) == session = "regular"

\* round(x, 4) of n / d, in units of 0.0001.
Round4(n, d) == RoundHalfEven(n, d)

NoGap == [gap_detected |-> FALSE, fill_price |-> NoValue, gap_type |-> None,
          intended_sl |-> NoValue, slippage_pct |-> 0]

NoQuote == [valid |-> FALSE, price |-> 0, prev_close |-> 0, is_stale |-> FALSE,
            session |-> None]

\* _fetch_live_price: raw is the provider's fast_info (0 for an absent value).
_fetch_live_price(raw, asset_type, session) ==
    LET price == IF raw.lastPrice # 0 THEN raw.lastPrice ELSE raw.previousClose
        prev_close == IF raw.previousClose # 0 THEN raw.previousClose ELSE price
    IN  IF price <= 0 THEN NoQuote
        ELSE [valid      |-> TRUE,
              price      |-> price,
              prev_close |-> prev_close,
              is_stale   |-> asset_type = "stock" /\ MarketOpen(session) /\ price = prev_close,
              session    |-> session]

\* A bug that would never detect a gap: every stop fills at its nominal level.
FillAtNominalStop(signal, current_price, prev_close) ==
    [gap_detected |-> FALSE, fill_price |-> current_price, gap_type |-> None,
     intended_sl |-> NoValue, slippage_pct |-> 0]

\* _detect_gap_fill(signal, current_price, prev_close)
_detect_gap_fill(signal, current_price, prev_close) ==
    LET none == [gap_detected |-> FALSE, fill_price |-> current_price, gap_type |-> None,
                 intended_sl |-> NoValue, slippage_pct |-> 0]
        down == IF prev_close > signal.sl /\ current_price <= signal.sl
                THEN [gap_detected |-> TRUE, fill_price |-> current_price,
                      gap_type |-> "gap_through_sl", intended_sl |-> signal.sl,
                      slippage_pct |->
                          RoundHalfEven((signal.sl - current_price) * 10000, signal.sl)]
                ELSE none
        tp_target == IF signal.turbo THEN signal.tp1 ELSE signal.tp3
    IN  IF prev_close < tp_target /\ current_price >= tp_target
        \* this dictionary has no slippage_pct key: gap_info.get('slippage_pct', 0) is 0
        THEN [gap_detected |-> TRUE, fill_price |-> current_price,
              gap_type |-> "gap_through_tp", intended_sl |-> NoValue, slippage_pct |-> 0]
        ELSE down

\* The signal dictionary both creation functions build (lines 370-415, 505-541).
NewSignal(id, ticker, asset_type, price, now, session, conviction, lv, turbo) ==
    [ id             |-> id,
      ticker         |-> ticker,
      asset_type     |-> asset_type,
      entry_price    |-> price,
      entry_time     |-> now,
      entry_session  |-> session,
      conviction     |-> conviction,
      sl             |-> lv.sl,
      tp1            |-> lv.tp1,
      tp2            |-> lv.tp2,
      tp3            |-> lv.tp3,
      turbo          |-> turbo,
      status         |-> "OPEN",
      current_price  |-> price,
      pnl_pct        |-> 0,
      highest_price  |-> price,
      lowest_price   |-> price,
      mae_pct        |-> 0,
      mfe_pct        |-> 0,
      tp1_hit        |-> FALSE,
      tp2_hit        |-> FALSE,
      tp3_hit        |-> FALSE,
      tp1_hit_time   |-> NoValue,
      tp2_hit_time   |-> NoValue,
      tp3_hit_time   |-> NoValue,
      closed_at      |-> NoValue,
      close_reason   |-> None,
      bars_held      |-> 0,
      close_price    |-> NoValue,
      close_session  |-> None,
      gap_info       |-> NoGap,
      slippage_pct   |-> 0,
      price_note     |-> None ]

\* create_turbo_signal's targets (lines 456-469); atr_val in units of 0.0001.
TurboLevels(price, atr_val) ==
    IF atr_val > 0
    THEN [sl  |-> Round4(2 * price - atr_val, 2),
          tp1 |-> Round4(2 * price + atr_val, 2),
          tp2 |-> Round4(price + atr_val, 1),
          tp3 |-> Round4(2 * price + 3 * atr_val, 2)]
    ELSE [sl  |-> Round4(price * 998, 1000),
          tp1 |-> Round4(price * 1005, 1000),
          tp2 |-> Round4(price * 1008, 1000),
          tp3 |-> Round4(price * 1012, 1000)]

\* record_signal's loop (lines 363-418) over the results from index k on.
RECURSIVE RecordLoop(_, _, _, _, _, _, _)
RecordLoop(results, k, act, id, asset_type, now, session) ==
    IF k > Len(results) THEN [active |-> act, next_id |-> id]
    ELSE LET r == results[k]
         IN  IF r.hard_fail \/ r.conviction_pct < 60
                \/ r.ticker \in {act[j].ticker : j \in 1..Len(act)}
             THEN RecordLoop(results, k + 1, act, id, asset_type, now, session)
             ELSE RecordLoop(results, k + 1,
                      Append(act, NewSignal(id, r.ticker, asset_type, r.last_close, now,
                                            session, r.conviction_pct,
                                            [sl |-> r.sl, tp1 |-> r.tp1, tp2 |-> r.tp2,
                                             tp3 |-> r.tp3], FALSE)),
                      id + 1, asset_type, now, session)

\* The market-closed branch of check_signals for a stock (lines 604-617).
MarketClosedUpdate(s, price, session, now) ==
    [s EXCEPT !.current_price = price,
              !.price_note = "Market closed",
              !.pnl_pct = IF s.entry_price # 0 THEN PctChange(price, s.entry_price) ELSE 0,
              !.bars_held = DaysHeld(now, s.entry_time)]

\* A bug that would let the watermarks follow the price instead of keeping
\* the extremes.
TrackUpdateFollowsPrice(s, price, now) ==
    [s EXCEPT !.current_price = price,
              !.bars_held = DaysHeld(now, s.entry_time),
              !.highest_price = Max2(price, s.entry_price),
              !.lowest_price = Min2(price, s.entry_price),
              !.pnl_pct = PctChange(price, s.entry_price),
              !.mae_pct = PctChange(Min2(price, s.entry_price), s.entry_price),
              !.mfe_pct = PctChange(Max2(price, s.entry_price), s.entry_price),
              !.tp1_hit = @ \/ price >= s.tp1,
              !.tp2_hit = @ \/ price >= s.tp2,
              !.tp3_hit = @ \/ price >= s.tp3]

\* A bug that would move the stop up to the entry price once tp1 is reached.
TrackUpdateTrailsStop(s, price, now) ==
    LET hi == IF price > s.highest_price THEN price ELSE s.highest_price
        lo == IF price < s.lowest_price THEN price ELSE s.lowest_price
        hit1 == price >= s.tp1 /\ ~s.tp1_hit
        hit2 == price >= s.tp2 /\ ~s.tp2_hit
        hit3 == price >= s.tp3 /\ ~s.tp3_hit
    IN  [s EXCEPT !.current_price = price,
                  !.bars_held = DaysHeld(now, s.entry_time),
                  !.highest_price = hi,
                  !.lowest_price = lo,
                  !.pnl_pct = PctChange(price, s.entry_price),
                  !.mae_pct = PctChange(lo, s.entry_price),
                  !.mfe_pct = PctChange(hi, s.entry_price),
                  !.sl = IF price >= s.tp1 THEN s.entry_price ELSE @,
                  !.tp1_hit = @ \/ hit1,
                  !.tp1_hit_time = IF hit1 THEN now ELSE @,
                  !.tp2_hit = @ \/ hit2,
                  !.tp2_hit_time = IF hit2 THEN now ELSE @,
                  !.tp3_hit = @ \/ hit3,
                  !.tp3_hit_time = IF hit3 THEN now ELSE @]

\* A bug that would stamp a target's hit time on every pass at or above it.
TrackUpdateRestamps(s, price, now) ==
    LET hi == IF price > s.highest_price THEN price ELSE s.highest_price
        lo == IF price < s.lowest_price THEN price ELSE s.lowest_price
    IN  [s EXCEPT !.current_price = price,
                  !.bars_held = DaysHeld(now, s.entry_time),
                  !.highest_price = hi,
                  !.lowest_price = lo,
                  !.pnl_pct = PctChange(price, s.entry_price),
                  !.mae_pct = PctChange(lo, s.entry_price),
                  !.mfe_pct = PctChange(hi, s.entry_price),
                  !.tp1_hit = @ \/ price >= s.tp1,
                  !.tp1_hit_time = IF price >= s.tp1 THEN now ELSE @,
                  !.tp2_hit = @ \/ price >= s.tp2,
                  !.tp2_hit_time = IF price >= s.tp2 THEN now ELSE @,
                  !.tp3_hit = @ \/ price >= s.tp3,
                  !.tp3_hit_time = IF price >= s.tp3 THEN now ELSE @]

\* Watermarks, MAE/MFE and take-profit flags (lines 625-656).
TrackUpdate(s, price, now) ==
    LET hi == IF price > s.highest_price THEN price ELSE s.highest_price
        lo == IF price < s.lowest_price THEN price ELSE s.lowest_price
        entry == s.entry_price
        hit1 == price >= s.tp1 /\ ~s.tp1_hit
        hit2 == price >= s.tp2 /\ ~s.tp2_hit
        hit3 == price >= s.tp3 /\ ~s.tp3_hit
    IN  [s EXCEPT !.current_price = price,
                  !.bars_held = DaysHeld(now, s.entry_time),
                  !.highest_price = hi,
                  !.lowest_price = lo,
                  !.pnl_pct = IF entry > 0 THEN PctChange(price, entry) ELSE @,
                  !.mae_pct = IF entry > 0 THEN PctChange(lo, entry) ELSE @,
                  !.mfe_pct = IF entry > 0 THEN PctChange(hi, entry) ELSE @,
                  !.tp1_hit = @ \/ hit1,
                  !.tp1_hit_time = IF hit1 THEN now ELSE @,
                  !.tp2_hit = @ \/ hit2,
                  !.tp2_hit_time = IF hit2 THEN now ELSE @,
                  !.tp3_hit = @ \/ hit3,
                  !.tp3_hit_time = IF hit3 THEN now ELSE @]

\* The bookkeeping common to every exit (lines 693-698).
Finalize(s, close_status, close_reason, gap_info, session, now) ==
    [s EXCEPT !.status = close_status,
              !.close_reason = close_reason,
              !.closed_at = now,
              !.close_session = session,
              !.gap_info = IF gap_info.gap_detected THEN gap_info ELSE NoGap]

\* A bug that would test the timeout before the stop and the targets.
CloseDecisionTimeoutFirst(s, price, gap_info, session, now) ==
    IF s.bars_held >= TimeoutDays
    THEN Finalize([s EXCEPT !.close_price = price],
                  "TIMEOUT", "30-day timeout", gap_info, session, now)
    ELSE IF price <= s.sl
    THEN Finalize([s EXCEPT !.close_price = s.sl,
                            !.pnl_pct = PctChange(s.sl, s.entry_price)],
                  "STOPPED_OUT", "SL hit", gap_info, session, now)
    ELSE IF s.turbo /\ s.tp1_hit
    THEN Finalize([s EXCEPT !.close_price = price],
                  "TP1_HIT", "Turbo TP1 hit", gap_info, session, now)
    ELSE IF s.tp3_hit
    THEN Finalize([s EXCEPT !.close_price = price],
                  "TP3_HIT", "TP3 hit", gap_info, session, now)
    ELSE s

\* Close conditions, in the order of the if/elif chain (lines 658-698).
CloseDecision(s, price, gap_info, session, now) ==
    IF price <= s.sl
    THEN LET actual_fill == IF gap_info.gap_detected THEN gap_info.fill_price ELSE s.sl
         IN  Finalize([s EXCEPT !.slippage_pct =
                                    IF gap_info.gap_detected THEN gap_info.slippage_pct ELSE @,
                                !.close_price = actual_fill,
                                !.pnl_pct = PctChange(actual_fill, s.entry_price)],
                      "STOPPED_OUT", "SL hit", gap_info, session, now)
    ELSE IF s.turbo /\ s.tp1_hit
    THEN Finalize([s EXCEPT !.close_price = price],
                  "TP1_HIT", "Turbo TP1 hit", gap_info, session, now)
    ELSE IF s.tp3_hit
    THEN Finalize([s EXCEPT !.close_price = price],
                  "TP3_HIT", "TP3 hit", gap_info, session, now)
    ELSE IF s.bars_held >= TimeoutDays
    THEN Finalize([s EXCEPT !.close_price = price],
                  "TIMEOUT", "30-day timeout", gap_info, session, now)
    ELSE s

\* A bug that would evaluate exits for stocks whatever the market hours.
CheckOneIgnoresMarketHours(s, pd_result, session, now) ==
    IF ~pd_result.valid THEN s
    ELSE LET gap_info == _detect_gap_fill(s, pd_result.price, pd_result.prev_close)
             price == IF gap_info.gap_detected THEN gap_info.fill_price
                      ELSE pd_result.price
         IN  CloseDecision(TrackUpdate(s, price, now), price, gap_info, session, now)

\* The body of check_signals' loop for one signal (lines 588-724): the signal
\* as it is appended to still_active (status OPEN) or newly_closed.
CheckOne(s, pd_result, session, now) ==
    IF ~pd_result.valid THEN s
    ELSE IF s.asset_type = "stock" /\ ~MarketOpen(session)
    THEN MarketClosedUpdate(s, pd_result.price, session, now)
    ELSE LET gap_info == _detect_gap_fill(s, pd_result.price, pd_result.prev_close)
             price == IF gap_info.gap_detected THEN gap_info.fill_price
                      ELSE pd_result.price
         IN  CloseDecision(TrackUpdate(s, price, now), price, gap_info, session, now)

\* prices[sym] after the batch fetch (lines 568-582): the last valid quote
\* fetched for a signal with that ticker.
PricesOf(act, fetched) ==
    [sym \in {act[k].ticker : k \in 1..Len(act)} |->
        LET ks == {k \in 1..Len(act) : act[k].ticker = sym /\ fetched[k].valid}
        IN  IF ks = {} THEN NoQuote
            ELSE fetched[CHOOSE k \in ks : \A j \in ks : j <= k]]

IsOpen(s) == s.status = "OPEN"
IsClosed(s) == s.status # "OPEN"

\* check_signals, given what the provider returns for each active signal.
check_signals(act, clo, raws, session, now) ==
    IF act = <<>> THEN [active |-> act, closed |-> clo]
    ELSE LET fetched == [k \in 1..Len(act) |->
                            _fetch_live_price(raws[k], act[k].asset_type, session)]
             prices == PricesOf(act, fetched)
             checked == [k \in 1..Len(act) |->
                            CheckOne(act[k], prices[act[k].ticker], session, now)]
         IN  [active |-> SelectSeq(checked, IsOpen),
              closed |-> clo \o SelectSeq(checked, IsClosed)]

\* A bug that would run a manual close through the stop test of a pass.
ManualCloseChecksStop(s, reason, session, now) ==
    [s EXCEPT !.status = IF s.current_price <= s.sl THEN "STOPPED_OUT" ELSE "MANUAL_CLOSE",
              !.close_reason = reason,
              !.closed_at = now,
              !.close_session = session,
              !.close_price = IF s.current_price <= s.sl THEN s.sl ELSE s.current_price,
              !.mae_pct = PctChange(s.lowest_price, s.entry_price),
              !.mfe_pct = PctChange(s.highest_price, s.entry_price)]

\* The update close_signal applies to the signal it closes (lines 888-909).
ManualClose(s, reason, session, now) ==
    [s EXCEPT !.status = "MANUAL_CLOSE",
              !.close_reason = reason,
              !.closed_at = now,
              !.close_session = session,
              !.close_price = s.current_price,
              !.mae_pct = IF s.entry_price > 0
                          THEN PctChange(s.lowest_price, s.entry_price) ELSE @,
              !.mfe_pct = IF s.entry_price > 0
                          THEN PctChange(s.highest_price, s.entry_price) ELSE @]

\* A bug that would append the closed signal without dropping it from active.
close_signal_keeps_active(act, clo, signal_id, reason, session, now) ==
    LET hit(s)  == s.id = signal_id
        closing == SelectSeq(act, hit)
    IN  [active |-> act,
         closed |-> clo \o [k \in 1..Len(closing) |->
                               ManualClose(closing[k], reason, session, now)]]

\* close_signal(signal_id, reason)
close_signal(act, clo, signal_id, reason, session, now) ==
    LET hit(s)  == s.id = signal_id
        miss(s) == s.id # signal_id
        closing == SelectSeq(act, hit)
    IN  [active |-> SelectSeq(act, miss),
         closed |-> clo \o [k \in 1..Len(closing) |->
                               ManualClose(closing[k], reason, session, now)]]

-----------------------------------------------------------------------------
(* Inputs and actions of the signal tracker                                *)

\* Two workloads are explored: "deep" follows one signal over thirty days,
\* "wide" follows up to MaxSignals signals through the first day.
Workloads == {"deep", "wide"}
MaxSignals == 2
SignalLimit == IF workload = "deep" THEN 1 ELSE MaxSignals

\* Signals are created on the first day: in or after its session in the deep
\* workload, in its session in the wide one.
LastEntryTick == IF workload = "deep" THEN 1 ELSE 0

Tickers == {"AAA", "BBB"}
AssetTypes == {"stock", "crypto"}

\* AAA is a listed stock, BBB a crypto pair.
AssetTypeOf(sym) == IF sym = "AAA" THEN "stock" ELSE "crypto"

\* The price a ticker trades at when a signal on it is created.
LivePrice(sym) == IF sym = "AAA" THEN 10000 ELSE 25100

\* The previous close the provider reports while signals are monitored.
PrevCloseOf(sym) == IF sym = "AAA" THEN 9950 ELSE 25050

\* The last prices the provider reports while signals are monitored; the wide
\* workload keeps the two extreme ones.
AllLastPrices(sym) ==
    IF sym = "AAA" THEN {9850, 10300, 10400} ELSE {24999, 25000, 25500}
WideLastPrices(sym) == IF sym = "AAA" THEN {9850, 10400} ELSE {24999, 25500}
LastPrices(sym) == IF workload = "deep" THEN AllLastPrices(sym) ELSE WideLastPrices(sym)

\* fast_info as the provider returns it: a last price with the previous close,
\* no last price (the previous close stands in), or nothing at all.
\* The wide workload leaves the stand-in case to the deep one.
RawQuotes(sym) ==
    {[lastPrice |-> p, previousClose |-> PrevCloseOf(sym)] : p \in LastPrices(sym)}
    \cup (IF workload = "deep"
          THEN {[lastPrice |-> 0, previousClose |-> PrevCloseOf(sym)]}
          ELSE {})
    \cup {[lastPrice |-> 0, previousClose |-> 0]}
AllRawQuotes == UNION {RawQuotes(sym) : sym \in Tickers}

CreationQuotes(sym) ==
    { [lastPrice |-> LivePrice(sym), previousClose |-> PrevCloseOf(sym)],
      [lastPrice |-> 0, previousClose |-> 0] }

\* 14-day ATR offered to create_turbo_signal: none (percentage fallback) or 0.02.
AtrChoices == {0, 200}
\* In the wide workload ATR history exists for the stock only.
AtrOffered(sym) ==
    IF workload = "deep" THEN AtrChoices ELSE {IF sym = "AAA" THEN 200 ELSE 0}

\* The ticks at which operations run: day 0 in and after the session, the
\* evening of day 29, day 30 in and after the session.
DeepTicks == {0, 1, 59, 60, 61}
\* Day 0 in and after the session.
WideTicks == {0, 1}
ClockTicks == IF workload = "deep" THEN DeepTicks ELSE WideTicks

\* Snapshots behind the scan results handed to record_signal: a strong one,
\* one capped below the recording floor, one hard-failed.
ScanKinds == {"strong", "weak", "fail"}
ScanSnapshot(sym, kind) ==
    LET p == LivePrice(sym)
        b == [BaseSnapshot EXCEPT !.symbol = sym, !.last_close = p, !.sl = p - 100,
                                  !.tp1 = p + 300, !.tp2 = p + 350, !.tp3 = p + 400]
    IN  IF kind = "strong" THEN b
        ELSE IF kind = "weak" THEN [b EXCEPT !.cloud_position = "below"]
        ELSE [b EXCEPT !.tas = "0/4"]

ScanRegime == [regime |-> "Choppy / Range", min_rr |-> 250]
ScanItem(sym, kind) == score_ticker(ScanSnapshot(sym, kind), ScanRegime)
ScanItems(sym) == {ScanItem(sym, kind) : kind \in ScanKinds}
\* scan_result["results"] of a scan over one ticker's watchlist entries; the
\* wide workload leaves the scans of two entries to the deep one.
ScanResults(sym) ==
    {<<a>> : a \in ScanItems(sym)}
    \cup (IF workload = "deep"
          THEN {<<a, b>> : a \in ScanItems(sym), b \in ScanItems(sym)}
          ELSE {})

Idle == [op |-> "idle", raws |-> <<>>, signal_id |-> 0]

InitTracker ==
    /\ active = <<>>
    /\ closed = <<>>
    /\ clock = 0
    /\ next_id = 1
    /\ last_pass = Idle
    /\ workload \in Workloads

\* record_signal(scan_result, asset_type)
RecordSignal ==
    \E sym \in Tickers :
      \E results \in ScanResults(sym) :
        LET r == RecordLoop(results, 1, active, next_id, AssetTypeOf(sym), clock,
                            SessionAt(clock))
        IN  /\ clock <= LastEntryTick
            /\ r.next_id <= SignalLimit + 1
            /\ active' = r.active
            /\ next_id' = r.next_id
            /\ last_pass' = Idle
            /\ UNCHANGED <<closed, clock, workload, scoreVars, outcomeVars, calibVars, overlapVars>>

\* create_turbo_signal(symbol, asset_type)
CreateTurboSignal ==
    \E sym \in Tickers :
      \E atr_val \in AtrOffered(sym), raw \in CreationQuotes(sym) :
        LET asset_type == AssetTypeOf(sym)
            price_data == _fetch_live_price(raw, asset_type, SessionAt(clock))
        IN  /\ clock <= LastEntryTick
            /\ next_id <= SignalLimit
            /\ IF ~price_data.valid
               THEN UNCHANGED <<active, next_id>>      \* returns {"error": ...}
               ELSE /\ active' = Append(active,
                           NewSignal(next_id, sym, asset_type, price_data.price, clock,
                                     SessionAt(clock), 0,
                                     TurboLevels(price_data.price, atr_val), TRUE))
                    /\ next_id' = next_id + 1
            /\ last_pass' = Idle
            /\ UNCHANGED <<closed, clock, workload, scoreVars, outcomeVars, calibVars, overlapVars>>

\* check_signals()
CheckSignals ==
    \E raws \in [1..Len(active) -> AllRawQuotes] :
        /\ \A k \in 1..Len(active) : raws[k] \in RawQuotes(active[k].ticker)
        /\ LET r == check_signals(active, closed, raws, SessionAt(clock), clock)
           IN  /\ active' = r.active
               /\ closed' = r.closed
        /\ last_pass' = [op |-> "check_signals", raws |-> raws, signal_id |-> 0]
        /\ UNCHANGED <<clock, next_id, workload, scoreVars, outcomeVars, calibVars, overlapVars>>

\* close_signal(signal_id); id 0 is an id no signal has.
CloseSignal ==
    \E signal_id \in 0..SignalLimit :
        LET r == close_signal(active, closed, signal_id, "manual", SessionAt(clock), clock)
        IN  /\ active' = r.active
            /\ closed' = r.closed
            /\ last_pass' = [op |-> "close_signal", raws |-> <<>>, signal_id |-> signal_id]
            /\ UNCHANGED <<clock, next_id, workload, scoreVars, outcomeVars, calibVars, overlapVars>>

\* Time passes between two operations.
AdvanceClock ==
    /\ \E t \in ClockTicks : t > clock /\ clock' = t
    /\ last_pass' = Idle
    /\ UNCHANGED <<active, closed, next_id, workload, scoreVars, outcomeVars, calibVars, overlapVars>>

\* No tracker call is in progress: every call runs to completion in its step.
IdleOverlap == calls = <<>>
IdleScore   == data = None /\ regime = None /\ result = NoResult
IdleScan    == daily = <<>> /\ levels = None /\ scan = None /\ outcome = NoOutcome
IdleOutcome == IdleScan /\ walk = NoWalk
IdleCalib ==
    /\ calib_file = NoCalibFile /\ bt = NoReport /\ raw_conviction = 0
    /\ call_params = NoParams /\ calib_out = NoOutput

NextTracker ==
    \/ RecordSignal
    \/ CreateTurboSignal
    \/ CheckSignals
    \/ CloseSignal
    \/ AdvanceClock

StartTracker == InitTracker /\ IdleScore /\ IdleOutcome /\ IdleCalib /\ IdleOverlap
SpecTracker == StartTracker /\ [][NextTracker]_vars

-----------------------------------------------------------------------------
(* Tracker calls that overlap                                              *)
(* signal_store keeps each collection as one JSON document: load_active,   *)
(* load_closed, save_active and save_closed each read or replace a whole   *)
(* document.  A call holds no lock between its loads and its saves, so the *)
(* store calls of two calls started by different triggers can interleave.  *)

\* Two open signals recorded on the first day, as record_signal stores them.
StoredSignals ==
    LET a == RecordLoop(<<ScanItem("AAA", "strong")>>, 1, <<>>, 1, "stock", 0, "regular")
    IN  RecordLoop(<<ScanItem("BBB", "strong")>>, 1, a.active, a.next_id, "crypto", 0,
                   "regular").active

\* Call 1 is a monitoring pass; call 2 is a pass, a manual close or a turbo
\* signal.  id is the signal close_signal is given, or the id uuid4 gives
\* the turbo signal.
CallChoices ==
    {[op |-> "check_signals", id |-> 0], [op |-> "close_signal", id |-> 1],
     [op |-> "close_signal", id |-> 2], [op |-> "create_turbo_signal", id |-> 3]}

InitOverlap ==
    /\ active = StoredSignals
    /\ closed = <<>>
    /\ clock = 0
    /\ next_id = 3
    /\ last_pass = Idle
    /\ workload = "wide"
    /\ calls \in { <<[op |-> "check_signals", id |-> 0, pc |-> "load_active",
                      act |-> <<>>, clo |-> <<>>, did |-> {}, made |-> {}],
                     [op |-> c.op, id |-> c.id, pc |-> "load_active",
                      act |-> <<>>, clo |-> <<>>, did |-> {}, made |-> {}]>> :
                   c \in CallChoices }

\* store.load_active() and store.load_closed() at the head of a call
\* (lines 559-560, 881-882, 543); check_signals returns when nothing is
\* active (lines 561-563).
Load(c) ==
    /\ calls[c].pc \in {"load_active", "load_closed"}
    /\ LET call == calls[c]
       IN  calls' = [calls EXCEPT ![c] =
             IF call.pc = "load_active"
             THEN [call EXCEPT !.act = active,
                               !.pc = IF call.op = "create_turbo_signal"
                                      THEN "save_active" ELSE "load_closed"]
             ELSE [call EXCEPT !.clo = closed,
                               !.pc = IF call.op = "check_signals" /\ call.act = <<>>
                                      THEN "done" ELSE "save_active"]]
    /\ UNCHANGED <<scoreVars, trackerVars, outcomeVars, calibVars>>

\* The call's work on what it loaded, then store.save_active (lines 727,
\* 916, 545); act and clo become the lists the call saves.
SaveActive(c) ==
    /\ calls[c].pc = "save_active"
    /\ \E raws \in [1..Len(calls[c].act) -> AllRawQuotes], raw \in CreationQuotes("AAA") :
        LET call == calls[c]
            session == SessionAt(clock)
            made == NewSignal(call.id, "AAA", "stock",
                              _fetch_live_price(raw, "stock", session).price, clock,
                              session, 0,
                              TurboLevels(_fetch_live_price(raw, "stock", session).price, 0),
                              TRUE)
            r == IF call.op = "check_signals"
                 THEN check_signals(call.act, call.clo, raws, session, clock)
                 ELSE IF call.op = "close_signal"
                 THEN close_signal(call.act, call.clo, call.id, "manual", session, clock)
                 ELSE [active |-> Append(call.act, made), closed |-> call.clo]
        IN  /\ \A k \in 1..Len(call.act) : raws[k] \in RawQuotes(call.act[k].ticker)
            /\ _fetch_live_price(raw, "stock", session).valid
            /\ active' = r.active
            /\ calls' = [calls EXCEPT ![c] =
                  [call EXCEPT !.act = r.active, !.clo = r.closed,
                            !.did = {x.id : x \in SeqToSet(r.closed)}
                                        \ {x.id : x \in SeqToSet(call.clo)},
                            !.made = IF call.op = "create_turbo_signal"
                                     THEN {call.id} ELSE {},
                            !.pc = IF call.op = "create_turbo_signal" THEN "done"
                                   ELSE "save_closed"]]
    /\ UNCHANGED <<closed, clock, next_id, last_pass, workload,
                   scoreVars, outcomeVars, calibVars>>

\* store.save_closed (lines 728, 917).
SaveClosed(c) ==
    /\ calls[c].pc = "save_closed"
    /\ closed' = calls[c].clo
    /\ calls' = [calls EXCEPT ![c].pc = "done"]
    /\ UNCHANGED <<active, clock, next_id, last_pass, workload,
                   scoreVars, outcomeVars, calibVars>>

NextOverlap ==
    \/ \E c \in 1..2 : Load(c)
    \/ \E c \in 1..2 : SaveActive(c)
    \/ \E c \in 1..2 : SaveClosed(c)

StartOverlap == InitOverlap /\ IdleScore /\ IdleOutcome /\ IdleCalib
SpecOverlap == StartOverlap /\ [][NextOverlap]_vars

-----------------------------------------------------------------------------
(* The conviction engine applied to every input                            *)

\* The regime matters through min_rr alone, which only the R:R inputs can
\* fall below: they are scored under every regime.
InitScore ==
    /\ data \in Snapshots
    /\ regime \in IF data \in P45Family THEN Regimes ELSE {ScanRegime}
    /\ result = NoResult

\* A call of score_ticker: it returns a result or an exception leaves it.
Score ==
    /\ result = NoResult
    /\ result' = IF RaisedBy(data) = None THEN score_ticker(data, regime)
                 ELSE [raised |-> RaisedBy(data)]
    /\ UNCHANGED <<data, regime, trackerVars, outcomeVars, calibVars, overlapVars>>

IdleTracker ==
    /\ active = <<>> /\ closed = <<>> /\ clock = 0 /\ next_id = 1
    /\ last_pass = Idle /\ workload = "deep"

NextScore == Score

StartScore == InitScore /\ IdleTracker /\ IdleOutcome /\ IdleCalib /\ IdleOverlap
SpecScore == StartScore /\ [][NextScore]_vars

-----------------------------------------------------------------------------
(* Properties of the conviction engine, under SpecScore                    *)

Scored == result # NoResult /\ "raised" \notin DOMAIN result

\* C1: whenever score_ticker returns a result with hard_fail true, that
\* result has conviction_pct 0 and heat Cold, whichever rule caused the
\* hard-fail and whatever the pillars computed before it were.
C1_HardFailForcesZero ==
    (Scored /\ result.hard_fail) =>
        (result.conviction_pct = 0 /\ result.heat = "Cold")

\* A hard-fail decided after pillars 1 to 4 were computed (the earnings
\* blackout), on a snapshot whose pillars alone would have scored TOP.
C1_Witness ==
    /\ Scored /\ result.hard_fail
    /\ result.hard_fail_reason = "Earnings HARD FAIL"
    /\ result.pillar_scores.p4 > 0
    /\ RawConviction([result.pillar_scores EXCEPT !.p5 = 80]) >= 75

C11_NeverRaises ==
    (result # NoResult) =>
        /\ "raised" \notin DOMAIN result
        /\ data.has_error => (result.hard_fail /\ result.hard_fail_reason = data.error)

\* C12: a snapshot whose weekly and daily timeframes are both BEAR and whose
\* 65m and 240m timeframes are both not BULL, whatever its other fields, gets
\* a hard-fail result whose reason is the "Weekly BEAR + Daily BEAR" one; no
\* later gate rule overwrites it.
C12_BearBearReason ==
    LET tf == data.tf_breakdown
    IN  (/\ result # NoResult
         /\ tf.tf_weekly = "BEAR" /\ tf.tf_daily = "BEAR"
         /\ tf.tf_65m # "BULL" /\ tf.tf_240m # "BULL")
        => /\ "raised" \notin DOMAIN result
           /\ result.hard_fail
           /\ result.hard_fail_reason = "Weekly BEAR + Daily BEAR, no lower TF reversal"

\* The snapshot carries none of the structural extras that speak for a long
\* entry: no confluence zone, not at the channel floor, no imbalance zone, no
\* point of control, no coil, no sustained 65m trend.
NoOffsettingEvidence(d) ==
    /\ ~d.near_confluence
    /\ "at_lower" \in DOMAIN d.lr_channel /\ ~d.lr_channel.at_lower
    /\ d.fvg_zones = <<>>
    /\ d.vol_profile.poc = 0
    /\ ~d.coiling
    /\ ~d.sustained_65m.sustained

\* C23: the hard-fail gate rejects a snapshot whose price is below the cloud
\* with no offsetting evidence: hard_fail is true and the conviction is 0.
C23_BelowCloudRejected ==
    (/\ Scored
     /\ data.cloud_position = "below"
     /\ NoOffsettingEvidence(data))
    => /\ result.hard_fail
       /\ result.conviction_pct = 0

\* The reversal divergence of the gate (lines 57-60): weekly and daily BEAR,
\* 65m and 240m BULL, the 65m trend sustained.
ReversalDivergence(d) ==
    /\ d.tf_breakdown.tf_weekly = "BEAR" /\ d.tf_breakdown.tf_daily = "BEAR"
    /\ d.tf_breakdown.tf_65m = "BULL" /\ d.tf_breakdown.tf_240m = "BULL"
    /\ d.sustained_65m.sustained

\* C24: a cap once collected is never removed, replaced or raised, and the
\* final conviction is at most every collected cap; in particular the
\* reversal-divergence cap of 70 bounds the final conviction, also when the
\* snapshot is near a confluence zone.
C24_CapsOnlyLower ==
    (Scored /\ ~result.hard_fail) =>
        /\ \A k \in 1..Len(result.caps) : result.conviction_pct <= result.caps[k]
        /\ result.conviction_pct <= result.raw_cv
        /\ ReversalDivergence(data) => result.conviction_pct <= 70

-----------------------------------------------------------------------------
(* Properties of the signal tracker, under SpecTracker                     *)

\* The step is a monitoring pass.
IsPass == last_pass'.op = "check_signals"

\* The quote the pass applies to active[k]: prices[ticker] of lines 568-590.
QuoteOf(k) ==
    PricesOf(active, [j \in 1..Len(active) |->
                 _fetch_live_price(last_pass'.raws[j], active[j].asset_type,
                                   SessionAt(clock))])[active[k].ticker]

\* The signal with this id as the step leaves it, wherever it is stored.
SignalAfter(id) ==
    LET all == active' \o closed'
    IN  all[CHOOSE j \in 1..Len(all) : all[j].id = id]

\* Exits are evaluated for the signal: crypto always, stocks in the session.
Evaluated(s) == s.asset_type = "crypto" \/ SessionAt(clock) = "regular"

\* The status the exit priority order prescribes.
ExpectedExit(s, price, days_held) ==
    IF price <= s.sl THEN "STOPPED_OUT"
    ELSE IF s.turbo /\ (s.tp1_hit \/ price >= s.tp1) THEN "TP1_HIT"
    ELSE IF s.tp3_hit \/ price >= s.tp3 THEN "TP3_HIT"
    ELSE IF days_held >= 30 THEN "TIMEOUT"
    ELSE "OPEN"

\* C3: in a monitoring pass, an open signal with a valid price whose market is
\* open gets its exit by fixed priority: STOPPED_OUT if price <= stop, else
\* TP1_HIT if turbo and the first target is hit, else TP3_HIT if the final
\* target is hit, else TIMEOUT if held 30 days or more, else it stays OPEN.
C3_ExitPriority ==
    [][IsPass =>
        \A k \in 1..Len(active) :
            (QuoteOf(k).valid /\ Evaluated(active[k])) =>
                SignalAfter(active[k].id).status =
                    ExpectedExit(active[k], QuoteOf(k).price,
                                 DaysHeld(clock, active[k].entry_time))]_vars

\* A pass closed a signal at its stop although the timeout was due as well.
C3_Witness ==
    /\ last_pass.op = "check_signals"
    /\ \E k \in 1..Len(closed) :
        /\ closed[k].status = "STOPPED_OUT"
        /\ closed[k].closed_at = clock
        /\ closed[k].bars_held >= 30
        /\ closed[k].current_price <= closed[k].sl

\* The fields a market-closed pass may write on a stock signal.
ClosedMarketWrites == {"current_price", "pnl_pct", "bars_held", "price_note"}

\* C4: while the US market is closed a monitoring pass closes no stock
\* signal, whatever the quote is relative to stop, targets and timeout; it
\* writes the current price, P&L and days held (with a note that the market is
\* closed) and leaves watermarks, MAE/MFE and take-profit flags as they were.
\* Crypto signals are still evaluated.
C4_MarketClosedNoExit ==
    [][(IsPass /\ SessionAt(clock) = "closed") =>
        \A k \in 1..Len(active) :
            LET s == active[k]
                t == SignalAfter(s.id)
                q == QuoteOf(k)
            IN  IF s.asset_type = "stock"
                THEN /\ \E j \in 1..Len(active') : active'[j].id = s.id
                     /\ t.status = "OPEN"
                     /\ \A f \in DOMAIN s \ ClosedMarketWrites : t[f] = s[f]
                     /\ q.valid =>
                          /\ t.current_price = q.price
                          /\ t.pnl_pct = PctChange(q.price, s.entry_price)
                          /\ t.bars_held = DaysHeld(clock, s.entry_time)
                ELSE q.valid =>
                        t.status = ExpectedExit(s, q.price,
                                                DaysHeld(clock, s.entry_time))]_vars

\* After the close of day 30 a stock quoted below its stop is still open, with
\* its low watermark where it was.
C4_Witness ==
    /\ last_pass.op = "check_signals"
    /\ SessionAt(clock) = "closed"
    /\ \E k \in 1..Len(active) :
        /\ active[k].asset_type = "stock"
        /\ active[k].current_price <= active[k].sl
        /\ active[k].bars_held >= 30
        /\ active[k].lowest_price > active[k].current_price
        /\ active[k].status = "OPEN"

\* The signal is quoted at or below its stop after closing above it.
GapThroughStop(s, q) == q.valid /\ q.prev_close > s.sl /\ q.price <= s.sl

\* What C5 says of a signal's close, slippage aside.
GapFillClose(s, t, q) ==
    /\ t.status = "STOPPED_OUT"
    /\ t.close_price = q.price
    /\ t.pnl_pct = PctChange(q.price, s.entry_price)
    /\ \E j \in 1..Len(closed') : closed'[j].id = s.id

\* (stop - quote) / stop in percent, to the two decimals the tracker keeps.
SlippagePct(s, q) == RoundHalfEven((s.sl - q.price) * 10000, s.sl)

\* C5 as stated: on a gap through the stop in an open-market pass the signal
\* closes STOPPED_OUT at the quoted price, with slippage (stop - quote)/stop
\* in percent that is positive whenever the quote is below the stop, and with
\* P&L computed from that fill.
C5_Original ==
    [][(IsPass /\ SessionAt(clock) = "regular") =>
        \A k \in 1..Len(active) :
            GapThroughStop(active[k], QuoteOf(k)) =>
                LET s == active[k]
                    t == SignalAfter(s.id)
                    q == QuoteOf(k)
                IN  /\ GapFillClose(s, t, q)
                    /\ t.slippage_pct = SlippagePct(s, q)
                    /\ q.price < s.sl => t.slippage_pct > 0]_vars

\* C5 (amended): on a gap through the stop in an open-market pass the signal
\* closes STOPPED_OUT at the quoted price with P&L computed from that fill;
\* the recorded slippage is (stop - quote)/stop in percent rounded to two
\* decimals, never negative, positive when the quote is more than 0.005% of
\* the stop below it and 0 when it is less than that below it.
C5_GapFill ==
    [][(IsPass /\ SessionAt(clock) = "regular") =>
        \A k \in 1..Len(active) :
            GapThroughStop(active[k], QuoteOf(k)) =>
                LET s == active[k]
                    t == SignalAfter(s.id)
                    q == QuoteOf(k)
                IN  /\ GapFillClose(s, t, q)
                    /\ t.slippage_pct = SlippagePct(s, q)
                    /\ t.slippage_pct >= 0
                    /\ (s.sl - q.price) * 20000 > s.sl => t.slippage_pct > 0
                    /\ (s.sl - q.price) * 20000 < s.sl => t.slippage_pct = 0]_vars

\* A stop gapped through: filled below the stop, with positive slippage.
C5_Witness ==
    /\ last_pass.op = "check_signals"
    /\ SessionAt(clock) = "regular"
    /\ \E k \in 1..Len(closed) :
        /\ closed[k].status = "STOPPED_OUT"
        /\ closed[k].closed_at = clock
        /\ closed[k].gap_info.gap_type = "gap_through_sl"
        /\ closed[k].close_price < closed[k].sl
        /\ closed[k].slippage_pct > 0
        /\ closed[k].pnl_pct = PctChange(closed[k].close_price, closed[k].entry_price)

IdsOf(signals) == {signals[k].id : k \in 1..Len(signals)}

\* Every active signal is OPEN, every closed one has a terminal status, and
\* no signal is in both collections.
CollectionsPartition ==
    /\ \A k \in 1..Len(active) : active[k].status = "OPEN"
    /\ \A k \in 1..Len(closed) :
         closed[k].status \in {"STOPPED_OUT", "TP1_HIT", "TP3_HIT", "TIMEOUT",
                               "MANUAL_CLOSE"}
    /\ IdsOf(active) \cap IdsOf(closed) = {}

\* A closed signal stays closed, with the status it was closed with.
ClosedIsFinal ==
    \A k \in 1..Len(closed) :
        /\ closed[k].id \notin IdsOf(active')
        /\ \E j \in 1..Len(closed') :
             closed'[j].id = closed[k].id /\ closed'[j].status = closed[k].status
        /\ \A j \in 1..Len(closed') :
             closed'[j].id = closed[k].id => closed'[j].status = closed[k].status

\* C6: after any sequence of record_signal, create_turbo_signal,
\* check_signals and close_signal calls, every active signal is OPEN, every
\* closed signal has one terminal status, no signal is in both collections,
\* and a closed signal never returns to active nor changes status.
C6_TerminalIsFinal == [](CollectionsPartition) /\ [][ClosedIsFinal]_vars

\* One signal was closed by hand and another by a pass, and a later operation
\* ran with both in the closed collection.
C6_Witness ==
    /\ Len(closed) = 2
    /\ closed[1].status # closed[2].status
    /\ \E k \in 1..2 : closed[k].status = "MANUAL_CLOSE"
    /\ \E k \in 1..2 : closed[k].closed_at < clock
    /\ last_pass.op # "idle"

AllSignals == active \o closed

\* Watermarks enclose the entry price, and the excursions have their signs.
WatermarksOutward ==
    \A k \in 1..Len(AllSignals) :
        LET s == AllSignals[k]
        IN  /\ s.lowest_price <= s.entry_price /\ s.entry_price <= s.highest_price
            /\ s.mae_pct <= 0 /\ 0 <= s.mfe_pct

\* What an evaluated pass with fill price q.price does to the watermarks and
\* the excursions of signal s, leaving it as t.
Tracked(s, t, q) ==
    /\ t.highest_price = Max2(s.highest_price, q.price)
    /\ t.lowest_price = Min2(s.lowest_price, q.price)
    /\ t.current_price = q.price
    /\ t.mfe_pct = PctChange(t.highest_price, s.entry_price)
    /\ t.mae_pct = PctChange(t.lowest_price, s.entry_price)

\* Outside an evaluated pass the watermarks and excursions stay as they are.
Untracked(s, t) ==
    /\ t.highest_price = s.highest_price /\ t.lowest_price = s.lowest_price
    /\ t.mfe_pct = s.mfe_pct /\ t.mae_pct = s.mae_pct

\* C13 as stated: after every open-market pass with a valid price the
\* watermarks are the extremes of the entry price and the fill prices seen in
\* such passes (they start at the entry price, each such pass extends them by
\* its fill price, nothing else moves them), MFE and MAE are the watermarks'
\* distance from entry in percent, P&L is the current price's, and
\* mae_pct <= 0 <= mfe_pct always.
C13_Original ==
    /\ [](WatermarksOutward)
    /\ [][\A k \in 1..Len(active) :
            LET s == active[k]
                t == SignalAfter(s.id)
                q == QuoteOf(k)
            IN  IF IsPass /\ q.valid /\ Evaluated(s)
                THEN /\ Tracked(s, t, q)
                     /\ t.pnl_pct = PctChange(t.current_price, s.entry_price)
                ELSE Untracked(s, t)]_vars

\* C13 (amended): as stated, except that P&L is the current price's distance
\* from entry only while the signal is not stopped out; a pass that stops
\* the signal out computes P&L from the close price, which is the quote on a
\* gap through the stop and the stop level otherwise.
C13_Watermarks ==
    /\ [](WatermarksOutward)
    /\ [][\A k \in 1..Len(active) :
            LET s == active[k]
                t == SignalAfter(s.id)
                q == QuoteOf(k)
            IN  IF IsPass /\ q.valid /\ Evaluated(s)
                THEN /\ Tracked(s, t, q)
                     /\ IF t.status = "STOPPED_OUT"
                        THEN /\ t.close_price =
                                  IF GapThroughStop(s, q) THEN q.price ELSE s.sl
                             /\ t.pnl_pct = PctChange(t.close_price, s.entry_price)
                        ELSE t.pnl_pct = PctChange(t.current_price, s.entry_price)
                ELSE Untracked(s, t)]_vars

\* A signal that ran up and fell back below its entry: both watermarks are
\* away from the entry price and the high one is above the current price.
C13_Witness ==
    /\ last_pass.op = "check_signals"
    /\ \E k \in 1..Len(active) :
        /\ active[k].lowest_price < active[k].entry_price
        /\ active[k].entry_price < active[k].highest_price
        /\ active[k].current_price < active[k].highest_price
        /\ active[k].mfe_pct > 0 /\ active[k].mae_pct < 0

\* The take-profit flags with their timestamps.
TpFlags == {<<"tp1_hit", "tp1_hit_time">>, <<"tp2_hit", "tp2_hit_time">>,
            <<"tp3_hit", "tp3_hit_time">>}

\* C14: take-profit flags are monotonic: no operation clears a flag that is
\* set, a flag is set by a monitoring pass only, and its timestamp is written
\* at the false-to-true transition (the time of that pass) and never again.
C14_TpFlagsMonotonic ==
    [][LET before == active \o closed
           after  == active' \o closed'
       IN  \A k \in 1..Len(before) :
             \E i \in 1..Len(after) :
               LET s == before[k]
                   t == after[i]
               IN  /\ t.id = s.id
                   /\ \A f \in TpFlags :
                         /\ s[f[1]] => (t[f[1]] /\ t[f[2]] = s[f[2]])
                         /\ (~s[f[1]] /\ t[f[1]]) => (IsPass /\ t[f[2]] = clock)
                         /\ ~t[f[1]] => t[f[2]] = NoValue]_vars

\* A later pass found the price at or above a target that an earlier pass
\* had already flagged.
C14_Witness ==
    /\ last_pass.op = "check_signals"
    /\ \E k \in 1..Len(active) :
        /\ active[k].tp1_hit /\ active[k].tp1_hit_time < clock
        /\ active[k].current_price >= active[k].tp1
        /\ active[k].bars_held = DaysHeld(clock, active[k].entry_time)
        /\ active[k].bars_held > DaysHeld(active[k].tp1_hit_time, active[k].entry_time)

\* C16: a pass takes no exit decision for a signal whose quote is flagged
\* stale (a stock quoted at its previous close while the market is open): a
\* stale quote never closes a signal.
C16_StaleNeverCloses ==
    [][IsPass =>
        \A k \in 1..Len(active) :
            QuoteOf(k).is_stale => SignalAfter(active[k].id).status = "OPEN"]_vars

\* The fields close_signal writes on the signal it closes.
ManualCloseWrites ==
    {"status", "close_reason", "closed_at", "close_session", "close_price",
     "mae_pct", "mfe_pct"}

\* C18: close_signal(id) on an active signal moves it from the active to the
\* closed collection with status MANUAL_CLOSE, whatever its price is relative
\* to stop and targets, with close price equal to its last current price and
\* MAE/MFE recomputed from its watermarks, and touches no other signal;
\* close_signal on an id that is not active changes neither collection.
C18_ManualClose ==
    [][last_pass'.op = "close_signal" =>
        LET id == last_pass'.signal_id
        IN  IF id \in IdsOf(active)
            THEN \E k \in 1..Len(active) :
                   LET s == active[k]
                       t == closed'[Len(closed')]
                   IN  /\ s.id = id
                       /\ active' = SelectSeq(active, LAMBDA x : x.id # id)
                       /\ closed' = Append(closed, t)
                       /\ t.status = "MANUAL_CLOSE"
                       /\ t.close_price = s.current_price
                       /\ t.closed_at = clock /\ t.close_session = SessionAt(clock)
                       /\ t.mae_pct = PctChange(s.lowest_price, s.entry_price)
                       /\ t.mfe_pct = PctChange(s.highest_price, s.entry_price)
                       /\ \A f \in DOMAIN s \ ManualCloseWrites : t[f] = s[f]
            ELSE active' = active /\ closed' = closed]_vars

\* A stock quoted below its stop after hours, then closed by hand: it is
\* closed MANUAL_CLOSE at that price, not stopped out.
C18_Witness ==
    /\ last_pass.op = "close_signal"
    /\ \E k \in 1..Len(closed) :
        /\ closed[k].id = last_pass.signal_id
        /\ closed[k].status = "MANUAL_CLOSE"
        /\ closed[k].closed_at = clock
        /\ closed[k].current_price <= closed[k].sl
        /\ closed[k].close_price = closed[k].current_price

\* What a signal keeps from its creation (lines 371-403, 506-524).
EntryContext ==
    {"id", "ticker", "asset_type", "entry_price", "entry_time", "entry_session",
     "sl", "tp1", "tp2", "tp3"}

\* C20: no check_signals or close_signal call changes a signal's entry
\* context (id, ticker, asset type, entry price, time and session, stop and
\* targets), so it is at any time what it was at creation; and a signal whose
\* ticker got no valid price in a pass is left as it was, in the active
\* collection.
C20_EntryContextFrozen ==
    [][LET before == active \o closed
           after  == active' \o closed'
       IN  /\ \A j \in 1..Len(before) :
                 \E i \in 1..Len(after) :
                     /\ after[i].id = before[j].id
                     /\ \A f \in EntryContext : after[i][f] = before[j][f]
           /\ IsPass =>
                 \A k \in 1..Len(active) :
                     ~QuoteOf(k).valid =>
                         /\ \E i \in 1..Len(active') : active'[i] = active[k]
                         /\ \A i \in 1..Len(after) :
                               after[i].id = active[k].id => after[i] = active[k]]_vars

\* A pass got nothing for one ticker and a price through the stop for the
\* other: the first signal is as it was created, the second is closed with
\* the stop it was created with.
C20_Witness ==
    /\ last_pass.op = "check_signals"
    /\ \E k \in 1..Len(last_pass.raws) :
          last_pass.raws[k].lastPrice = 0 /\ last_pass.raws[k].previousClose = 0
    /\ \E i \in 1..Len(active), j \in 1..Len(closed) :
          /\ active[i].ticker # closed[j].ticker
          /\ active[i].current_price = active[i].entry_price
          /\ active[i].price_note = None
          /\ closed[j].status = "STOPPED_OUT"
          /\ closed[j].closed_at = clock
          /\ closed[j].sl < closed[j].entry_price

\* C28: for every signal, open or closed, after any sequence of monitoring
\* passes (those made while the market is closed included) and closes, the
\* recorded excursions bracket the recorded P&L, mae_pct <= pnl_pct <=
\* mfe_pct, and the watermarks bracket the current price, lowest_price <=
\* current_price <= highest_price.
C28_ExcursionsBracket ==
    \A s \in SeqToSet(active \o closed) :
        /\ s.mae_pct <= s.pnl_pct /\ s.pnl_pct <= s.mfe_pct
        /\ s.lowest_price <= s.current_price /\ s.current_price <= s.highest_price

\* C29: after any sequence of record_signal, create_turbo_signal,
\* check_signals and close_signal calls the active collection never holds
\* two OPEN signals with the same ticker.
C29_OneOpenPerTicker ==
    \A i, j \in 1..Len(active) :
        (/\ active[i].status = "OPEN" /\ active[j].status = "OPEN"
         /\ active[i].ticker = active[j].ticker) => i = j

Quiescent == \A c \in 1..Len(calls) : calls[c].pc = "done"

\* C15: writers of the active/closed collections are serialized, so that no
\* update is lost when calls overlap: once both calls have returned, every
\* signal a call closed is in the closed collection and not in the active
\* one, no signal is in both, and every signal a call created is stored.
C15_NoLostUpdate ==
    Quiescent =>
        /\ IdsOf(active) \cap IdsOf(closed) = {}
        /\ \A c \in 1..Len(calls) :
              /\ calls[c].did \subseteq IdsOf(closed)
              /\ calls[c].did \cap IdsOf(active) = {}
              /\ calls[c].made \subseteq IdsOf(active) \cup IdsOf(closed)

-----------------------------------------------------------------------------
(* backtester.py: _check_outcome, the forward scan of a backtest signal    *)
(* Prices are in cents; bar 1 of daily is the entry bar.                   *)


\* The locals of _check_outcome before its loop (lines 193-202).
StartScan(bars, forward_days) ==
    [ entry_price |-> bars[1].Close,
      max_idx     |-> Min2(1 + forward_days, Len(bars)),
      i           |-> 2,
      broke       |-> FALSE,
      hit_tp1     |-> FALSE,
      hit_tp2     |-> FALSE,
      hit_sl      |-> FALSE,
      max_price   |-> bars[1].Close,
      min_price   |-> bars[1].Close,
      exit_day    |-> 0,
      exit_price  |-> bars[1].Close ]

\* A bug that would set hit_tp2 on any bar reaching tp2.
scan_bar_tp2_unguarded(st, bar, lv) ==
    LET days_held == st.i - 1
        seen == [st EXCEPT !.max_price = Max2(@, bar.High),
                           !.min_price = Min2(@, bar.Low),
                           !.i = @ + 1]
    IN  IF bar.Low <= lv.sl /\ ~st.hit_sl
        THEN [seen EXCEPT !.hit_sl = TRUE, !.exit_day = days_held,
                          !.exit_price = lv.sl, !.broke = TRUE]
        ELSE IF bar.High >= lv.tp2
        THEN [seen EXCEPT !.hit_tp1 = @ \/ bar.High >= lv.tp1, !.hit_tp2 = TRUE,
                          !.exit_day = days_held,
                          !.exit_price = lv.tp2, !.broke = TRUE]
        ELSE IF bar.High >= lv.tp1 /\ ~st.hit_tp1
        THEN [seen EXCEPT !.hit_tp1 = TRUE, !.exit_day = days_held,
                          !.exit_price = lv.tp1]
        ELSE seen

\* A bug that would look at the targets before the stop.
scan_bar_targets_first(st, bar, lv) ==
    LET days_held == st.i - 1
        seen == [st EXCEPT !.max_price = Max2(@, bar.High),
                           !.min_price = Min2(@, bar.Low),
                           !.i = @ + 1]
    IN  IF bar.High >= lv.tp1 /\ ~st.hit_tp1
        THEN IF bar.High >= lv.tp2
             THEN [seen EXCEPT !.hit_tp1 = TRUE, !.hit_tp2 = TRUE,
                               !.exit_day = days_held,
                               !.exit_price = lv.tp2, !.broke = TRUE]
             ELSE [seen EXCEPT !.hit_tp1 = TRUE, !.exit_day = days_held,
                               !.exit_price = lv.tp1]
        ELSE IF st.hit_tp1 /\ bar.High >= lv.tp2
        THEN [seen EXCEPT !.hit_tp2 = TRUE, !.exit_day = days_held,
                          !.exit_price = lv.tp2, !.broke = TRUE]
        ELSE IF bar.Low <= lv.sl /\ ~st.hit_sl
        THEN [seen EXCEPT !.hit_sl = TRUE, !.exit_day = days_held,
                          !.exit_price = lv.sl, !.broke = TRUE]
        ELSE seen

\* One iteration of the loop (lines 204-230) on bar st.i.
scan_bar(st, bar, lv) ==
    LET days_held == st.i - 1
        seen == [st EXCEPT !.max_price = Max2(@, bar.High),
                           !.min_price = Min2(@, bar.Low),
                           !.i = @ + 1]
    IN  IF bar.Low <= lv.sl /\ ~st.hit_sl
        THEN [seen EXCEPT !.hit_sl = TRUE, !.exit_day = days_held,
                          !.exit_price = lv.sl, !.broke = TRUE]
        ELSE IF bar.High >= lv.tp1 /\ ~st.hit_tp1
        THEN IF bar.High >= lv.tp2
             THEN [seen EXCEPT !.hit_tp1 = TRUE, !.hit_tp2 = TRUE,
                               !.exit_day = days_held,
                               !.exit_price = lv.tp2, !.broke = TRUE]
             ELSE [seen EXCEPT !.hit_tp1 = TRUE, !.exit_day = days_held,
                               !.exit_price = lv.tp1]
        ELSE IF st.hit_tp1 /\ bar.High >= lv.tp2
        THEN [seen EXCEPT !.hit_tp2 = TRUE, !.exit_day = days_held,
                          !.exit_price = lv.tp2, !.broke = TRUE]
        ELSE seen

LoopEnded(st) == st.broke \/ st.i > st.max_idx

\* The result built after the loop (lines 232-248).
OutcomeOf(st, bars, forward_days) ==
    LET timed_out  == ~st.hit_tp1 /\ ~st.hit_sl
        exit_price == IF timed_out THEN bars[st.max_idx].Close ELSE st.exit_price
        exit_day   == IF timed_out THEN forward_days ELSE st.exit_day
        pnl_pct    == PctChange(exit_price, st.entry_price)
    IN  [ resolved     |-> TRUE,
          outcome      |-> IF st.hit_tp2 THEN "TP2_HIT"
                           ELSE IF st.hit_tp1 THEN "TP1_HIT"
                           ELSE IF st.hit_sl THEN "SL_HIT" ELSE "TIMEOUT",
          win          |-> st.hit_tp1 \/ pnl_pct > 0,
          pnl_pct      |-> pnl_pct,
          exit_day     |-> exit_day,
          exit_price   |-> exit_price,
          max_gain     |-> PctChange(st.max_price, st.entry_price),
          max_drawdown |-> PctChange(st.min_price, st.entry_price),
          hit_tp1      |-> st.hit_tp1,
          hit_tp2      |-> st.hit_tp2,
          hit_sl       |-> st.hit_sl ]

\* Inputs: a 100.00 entry close followed by up to MaxForwardBars daily bars.
MaxForwardBars == 3
ForwardDayChoices == {2, 3}

EntryBar == [High |-> 10100, Low |-> 9900, Close |-> 10000]
BarShapes ==
    { [High |-> 10100, Low |-> 9900,  Close |-> 10050],     \* quiet
      [High |-> 10450, Low |-> 9950,  Close |-> 10300],     \* above 104.00
      [High |-> 10550, Low |-> 10000, Close |-> 10500],     \* above 105.00
      [High |-> 10700, Low |-> 10100, Close |-> 10600],     \* above 106.00
      [High |-> 10050, Low |-> 9400,  Close |-> 9450],      \* through the stop
      [High |-> 10700, Low |-> 9400,  Close |-> 9900] }     \* stop and targets
ForwardBars == UNION {[1..n -> BarShapes] : n \in 0..MaxForwardBars}

\* sl < close < tp1, with tp2 above or below tp1 (the two Fibonacci targets
\* come from different look-back windows, lines 116-118).
LevelChoices ==
    { [sl |-> 9500, tp1 |-> 10400, tp2 |-> 10500],
      [sl |-> 9500, tp1 |-> 10600, tp2 |-> 10500] }

InitOutcome ==
    /\ daily \in {<<EntryBar>> \o fwd : fwd \in ForwardBars}
    /\ levels \in [lv : LevelChoices, forward_days : ForwardDayChoices]
    /\ scan = StartScan(daily, levels.forward_days)
    /\ outcome = NoOutcome
    /\ walk = NoWalk

\* The loop body runs on the next bar.
ScanBar ==
    /\ outcome = NoOutcome
    /\ ~LoopEnded(scan)
    /\ scan' = scan_bar(scan, daily[scan.i], levels.lv)
    /\ UNCHANGED <<daily, levels, outcome, walk, scoreVars, trackerVars, calibVars, overlapVars>>

\* The loop is over: _check_outcome returns.
ReturnOutcome ==
    /\ outcome = NoOutcome
    /\ LoopEnded(scan)
    /\ outcome' = OutcomeOf(scan, daily, levels.forward_days)
    /\ UNCHANGED <<daily, levels, scan, walk, scoreVars, trackerVars, calibVars, overlapVars>>

NextOutcome ==
    \/ ScanBar
    \/ ReturnOutcome

StartOutcome == InitOutcome /\ IdleScore /\ IdleTracker /\ IdleCalib /\ IdleOverlap
SpecOutcome == StartOutcome /\ [][NextOutcome]_vars

\* C7: for every backtest signal, whatever the bars and the levels, hit_tp2
\* (outcome TP2_HIT) implies hit_tp1; it holds all along the forward scan.
C7_Tp2ImpliesTp1 ==
    /\ scan.hit_tp2 => scan.hit_tp1
    /\ outcome # NoOutcome =>
         /\ outcome.hit_tp2 => outcome.hit_tp1
         /\ outcome.outcome = "TP2_HIT" <=> outcome.hit_tp2

\* TP1 was reached on the first bar and TP2 on a later one.
C7_Witness ==
    /\ outcome # NoOutcome
    /\ outcome.outcome = "TP2_HIT" /\ outcome.hit_tp1 /\ outcome.hit_tp2
    /\ outcome.exit_day >= 2
    /\ outcome.exit_price = levels.lv.tp2
    /\ daily[2].High >= levels.lv.tp1 /\ daily[2].High < levels.lv.tp2

\* C8: a bar of the forward scan with low <= stop and high >= tp1 is resolved
\* stop-first: the scan ends on it with hit_sl true and exit price equal to
\* the stop, and the bar sets no take-profit flag.
C8_StopFirst ==
    [][(~LoopEnded(scan) /\ scan' # scan
          /\ daily[scan.i].Low <= levels.lv.sl
          /\ daily[scan.i].High >= levels.lv.tp1) =>
        /\ LoopEnded(scan') /\ scan'.broke
        /\ scan'.hit_sl
        /\ scan'.exit_price = levels.lv.sl
        /\ scan'.exit_day = scan.i - 1
        /\ scan'.hit_tp1 = scan.hit_tp1
        /\ scan'.hit_tp2 = scan.hit_tp2]_vars

\* The scan returned a stop on a bar whose high had reached both targets.
C8_Witness ==
    /\ outcome # NoOutcome
    /\ outcome.hit_sl /\ ~outcome.hit_tp1 /\ ~outcome.hit_tp2
    /\ outcome.outcome = "SL_HIT"
    /\ outcome.exit_price = levels.lv.sl
    /\ daily[1 + outcome.exit_day].High >= levels.lv.tp1
    /\ daily[1 + outcome.exit_day].High >= levels.lv.tp2

\* The bars of the forward window, and the first of them in a set (0 if none).
WindowBars == 2..scan.max_idx
FirstBar(S) == IF S = {} THEN 0 ELSE CHOOSE k \in S : \A j \in S : k <= j

\* C22: take-profit-2 preempts take-profit-1 only within one bar: when tp1
\* is first touched on one bar of the window and tp2 is first touched on a
\* later bar (the stop not touched up to that bar), the outcome is TP1_HIT
\* with exit at tp1.
C22_Tp2OnlySameBar ==
    outcome # NoOutcome =>
        LET t1 == FirstBar({k \in WindowBars : daily[k].High >= levels.lv.tp1})
            t2 == FirstBar({k \in WindowBars : daily[k].High >= levels.lv.tp2})
            st == FirstBar({k \in WindowBars : daily[k].Low <= levels.lv.sl})
        IN  (t1 > 0 /\ t2 > t1 /\ (st = 0 \/ st > t2)) =>
                /\ outcome.outcome = "TP1_HIT"
                /\ outcome.exit_price = levels.lv.tp1

\* C30: the outcome label agrees with the exit it reports: the outcome is
\* SL_HIT exactly when the position exited at the stop (hit_sl true), a
\* signal labelled TP1_HIT or TP2_HIT has its exit price at that target, and
\* with stop < entry < targets a take-profit outcome carries no negative
\* realized P&L.
C30_LabelAgreesWithExit ==
    outcome # NoOutcome =>
        /\ outcome.outcome = "SL_HIT" <=> outcome.hit_sl
        /\ outcome.outcome = "TP1_HIT" => outcome.exit_price = levels.lv.tp1
        /\ outcome.outcome = "TP2_HIT" => outcome.exit_price = levels.lv.tp2
        /\ (/\ levels.lv.sl < daily[1].Close /\ daily[1].Close < levels.lv.tp1
            /\ levels.lv.tp1 < levels.lv.tp2
            /\ outcome.outcome \in {"TP1_HIT", "TP2_HIT"}) => outcome.pnl_pct >= 0

-----------------------------------------------------------------------------
(* backtester.py: run_backtest, the walk-forward loop over the symbols     *)
(* Bars are numbered from 0 as in the data frame.  daily holds the frame   *)
(* from the sampled bar to its last bar, so bar k of daily is bar          *)
(* idx + k - 1 of the frame.                                               *)

\* The range of sampled indices (lines 282-283, 286).
start_idx(total_bars, lookback_days, forward_days) ==
    Max2(160, total_bars - lookback_days - forward_days)
end_idx(total_bars, forward_days) == total_bars - forward_days

\* A bug that would let the snapshot see the bar after the sampled one.
WindowWithNextBar(idx) == idx + 2

\* len(window) for window = daily.iloc[:idx+1] (line 26): bars 0..idx are
\* all that _compute_indicators reads.
WindowLen(idx) == idx + 1

\* The bars of daily the forward scan has read after bar 1, whose close is
\* the entry price (line 193): the loop reads bar st.i before it moves on,
\* and a scan that ran out reads the close of bar max_idx (line 233).
BarsRead(st) ==
    (2..(st.i - 1)) \cup
    (IF LoopEnded(st) /\ ~st.hit_tp1 /\ ~st.hit_sl THEN {st.max_idx} ELSE {})

\* Inputs: a batch of one or two symbols, symbol k with histories[k] bars:
\* one bar short of the 200 required, exactly 200 and more; a look-back that
\* reaches below bar 160 and one that does not.  Batches of two symbols are
\* walked with a forward window of one bar.
WalkCalls ==
    { [histories |-> <<c[1]>>, lookback_days |-> c[2], sample_every |-> c[3],
       forward_days |-> f] :
         c \in {<<199, 120, 12>>, <<200, 120, 12>>, <<230, 10, 4>>, <<230, 10, 5>>},
         f \in 1..MaxForwardBars }
    \cup
    { [histories |-> h, lookback_days |-> 10, sample_every |-> 5,
       forward_days |-> 1] :
         h \in {<<199, 230>>, <<230, 199>>, <<230, 230>>} }
QuietBar == [High |-> 10100, Low |-> 9900, Close |-> 10050]
StopBar  == [High |-> 10050, Low |-> 9400, Close |-> 9450]

\* The frame from bar idx on: the entry bar, up to MaxForwardBars bars of
\* either shape, quiet bars to the end of the history.
FramesFrom(idx, total_bars) ==
    LET rest == total_bars - 1 - idx
        near == Min2(MaxForwardBars, rest)
    IN  { <<EntryBar>> \o fwd \o [k \in 1..(rest - near) |-> QuietBar] :
            fwd \in [1..near -> {QuietBar, StopBar}] }

NoReturn == [returned |-> FALSE]

\* run_backtest is entered (line 251); sym is the position of the current
\* symbol in symbols, regime_fetches the number of fetch_market_regime calls
\* made so far, the regime in hand being the one of the latest call.
InitWalk ==
    /\ walk \in { [pc |-> "regime", call |-> c, sym |-> 1, total_bars |-> 0,
                   idx |-> 0, window |-> 0, regime_fetches |-> 0,
                   all_signals |-> <<>>, errors |-> <<>>,
                   report |-> NoReturn] : c \in WalkCalls }
    /\ IdleScan

\* regime = fetch_market_regime(), before the loop over the symbols (lines
\* 268-272); fetch_market_regime catches its own exceptions.
FetchRegime ==
    /\ walk.pc = "regime"
    /\ walk' = [walk EXCEPT !.pc = "history", !.regime_fetches = @ + 1]
    /\ UNCHANGED <<daily, levels, scan, outcome, scoreVars, trackerVars, calibVars, overlapVars>>

\* The loop over the symbols moves on (line 272), or is over.
NextSymbol(w) ==
    IF w.sym < Len(w.call.histories)
    THEN [w EXCEPT !.pc = "history", !.sym = @ + 1]
    ELSE [w EXCEPT !.pc = "done"]

\* tk.history returned; fewer than 200 bars is an error recorded for the
\* symbol (lines 276-283).
FetchHistory ==
    /\ walk.pc = "history"
    /\ LET bars == walk.call.histories[walk.sym]
       IN  walk' = IF bars < 200
                   THEN NextSymbol([walk EXCEPT !.errors =
                            Append(@, [symbol |-> walk.sym, what |-> "insufficient data"])])
                   ELSE [walk EXCEPT !.pc = "range",
                                     !.total_bars = bars,
                                     !.idx = start_idx(bars, walk.call.lookback_days,
                                                       walk.call.forward_days)]
    /\ UNCHANGED <<daily, levels, scan, outcome, scoreVars, trackerVars, calibVars, overlapVars>>

\* The next index of the range and its snapshot (lines 286-289, 21-26).
ComputeIndicators ==
    /\ walk.pc = "range"
    /\ walk.idx < end_idx(walk.total_bars, walk.call.forward_days)
    /\ walk' = IF walk.idx < 160
               THEN [walk EXCEPT !.idx = @ + walk.call.sample_every]
               ELSE [walk EXCEPT !.pc = "scored", !.window = WindowLen(walk.idx)]
    /\ UNCHANGED <<daily, levels, scan, outcome, scoreVars, trackerVars, calibVars, overlapVars>>

\* Something in the try block raises, in the download or at a sampled index
\* (np.polyfit on a window that holds a NaN close, say): the except clause
\* records the symbol and the loop over the symbols goes on (lines 320-322).
\* What the symbol has appended to all_signals stays there.
ProcessingRaises ==
    /\ \/ walk.pc = "history"
       \/ /\ walk.pc = "range"
          /\ walk.idx < end_idx(walk.total_bars, walk.call.forward_days)
    /\ walk' = NextSymbol([walk EXCEPT !.errors =
                   Append(@, [symbol |-> walk.sym, what |-> "exception"])])
    /\ UNCHANGED <<daily, levels, scan, outcome, scoreVars, trackerVars, calibVars, overlapVars>>

\* The range is exhausted: the symbol is done.
EndRange ==
    /\ walk.pc = "range"
    /\ walk.idx >= end_idx(walk.total_bars, walk.call.forward_days)
    /\ walk' = NextSymbol(walk)
    /\ UNCHANGED <<daily, levels, scan, outcome, scoreVars, trackerVars, calibVars, overlapVars>>

\* The scored snapshot is a hard fail or below 40: no signal (lines 294-299).
SkipSample ==
    /\ walk.pc = "scored"
    /\ walk' = [walk EXCEPT !.pc = "range", !.idx = @ + walk.call.sample_every]
    /\ UNCHANGED <<daily, levels, scan, outcome, scoreVars, trackerVars, calibVars, overlapVars>>

\* _check_outcome(daily, idx, sl, tp1, tp2, forward_days) is called
\* (line 304).
CallCheckOutcome ==
    /\ walk.pc = "scored"
    /\ \E frame \in FramesFrom(walk.idx, walk.total_bars), lv \in LevelChoices :
          /\ daily' = frame
          /\ levels' = [lv |-> lv, forward_days |-> walk.call.forward_days]
          /\ scan' = StartScan(frame, walk.call.forward_days)
    /\ outcome' = NoOutcome
    /\ walk' = [walk EXCEPT !.pc = "outcome"]
    /\ UNCHANGED <<scoreVars, trackerVars, calibVars, overlapVars>>

\* The signal is appended with its outcome (lines 306-318); the locals of
\* the call are gone.  regime_fetch tells which fetch gave the regime the
\* sample was scored with (line 292).
AppendSignal ==
    /\ walk.pc = "outcome"
    /\ outcome # NoOutcome
    /\ walk' = [walk EXCEPT
          !.pc = "range",
          !.idx = @ + walk.call.sample_every,
          !.all_signals = Append(@,
              [ symbol    |-> walk.sym,
                idx       |-> walk.idx,
                window    |-> walk.window,
                bars_read |-> {walk.idx + k - 1 : k \in BarsRead(scan)},
                regime_fetch |-> walk.regime_fetches,
                outcome   |-> outcome.outcome ])]
    /\ daily' = <<>> /\ levels' = None /\ scan' = None /\ outcome' = NoOutcome
    /\ UNCHANGED <<scoreVars, trackerVars, calibVars, overlapVars>>

\* run_backtest returns: the error dictionary when no signal was collected,
\* the report over all_signals otherwise (lines 324-325, 388-411).
ReturnReport ==
    /\ walk.pc = "done"
    /\ walk' = [walk EXCEPT
          !.pc = "returned",
          !.report = IF walk.all_signals = <<>>
                     THEN [returned |-> TRUE, error |-> "No signals generated",
                           errors |-> walk.errors]
                     ELSE [returned |-> TRUE,
                           total_signals |-> Len(walk.all_signals),
                           signals |-> walk.all_signals,
                           errors |-> walk.errors]]
    /\ UNCHANGED <<daily, levels, scan, outcome, scoreVars, trackerVars, calibVars, overlapVars>>

NextWalk ==
    \/ FetchRegime
    \/ FetchHistory
    \/ ComputeIndicators
    \/ ProcessingRaises
    \/ EndRange
    \/ SkipSample
    \/ CallCheckOutcome
    \/ walk.pc = "outcome" /\ ScanBar
    \/ walk.pc = "outcome" /\ ReturnOutcome
    \/ AppendSignal
    \/ ReturnReport

StartWalk == InitWalk /\ IdleScore /\ IdleTracker /\ IdleCalib /\ IdleOverlap
SpecWalk == StartWalk /\ [][NextWalk]_vars

\* What holds of a sampled index: its window ends at the sampled bar and it
\* lies between bar 160 and the last bar that has forward_days bars after it.
Sampled(idx, window, total_bars, forward_days) ==
    /\ window >= 1 /\ window - 1 <= idx
    /\ 160 <= idx
    /\ idx <= (total_bars - 1) - forward_days

\* C19: a walk-forward backtest has no look-ahead.  For each sampled index
\* idx the snapshot's window is bars 0..idx, the forward scan reads only
\* bars idx+1..idx+forward_days, and 160 <= idx <= last index - forward_days,
\* so the forward window of every retained signal lies inside the history.
C19_NoLookAhead ==
    /\ walk.pc \in {"scored", "outcome"} =>
          Sampled(walk.idx, walk.window, walk.total_bars, walk.call.forward_days)
    /\ walk.pc = "outcome" =>
          \A k \in BarsRead(scan) :
              walk.idx + 1 <= walk.idx + k - 1
              /\ walk.idx + k - 1 <= walk.idx + walk.call.forward_days
    /\ walk.pc # "idle" =>
          \A n \in 1..Len(walk.all_signals) :
              LET s == walk.all_signals[n]
                  total_bars == walk.call.histories[s.symbol]
              IN  /\ Sampled(s.idx, s.window, total_bars, walk.call.forward_days)
                  /\ s.bars_read \subseteq
                        (s.idx + 1)..(s.idx + walk.call.forward_days)
                  /\ s.idx + walk.call.forward_days <= total_bars - 1

\* A finished walk that sampled bar 160 and the last index that leaves a
\* whole forward window, stopped early on one signal and read the whole
\* window of the last one.
C19_Witness ==
    /\ walk.pc = "done"
    /\ Len(walk.all_signals) >= 2
    /\ walk.all_signals[1].idx = 160
    /\ walk.all_signals[1].outcome = "SL_HIT"
    /\ LET s == walk.all_signals[Len(walk.all_signals)]
       IN  /\ s.idx = (walk.total_bars - 1) - walk.call.forward_days
           /\ s.window = s.idx + 1
           /\ s.outcome = "TIMEOUT"
           /\ s.bars_read = (s.idx + 1)..(walk.total_bars - 1)
           /\ walk.call.forward_days >= 2

\* C21: a symbol with insufficient history, or whose processing raises, is
\* recorded in errors and contributes no signal to the report; the symbols
\* after it are still processed; and run_backtest returns the error
\* dictionary only when no symbol produced a signal.
C21_ErrorsIsolated ==
    walk.pc = "returned" =>
        LET failed == {walk.errors[n].symbol : n \in 1..Len(walk.errors)}
            symbols == 1..Len(walk.call.histories)
        IN  /\ \A s \in symbols : walk.call.histories[s] < 200 => s \in failed
            /\ walk.report.errors = walk.errors
            /\ \A n \in 1..Len(walk.all_signals) :
                  walk.all_signals[n].symbol \notin failed
            /\ walk.sym = Len(walk.call.histories)
            /\ "error" \in DOMAIN walk.report <=> walk.all_signals = <<>>

\* C27: in a walk-forward backtest the market regime is fetched anew for
\* every step: of two samples scored in one run, the later one is scored
\* with the regime of a later fetch_market_regime call, never with the one
\* fetch made before the loop.
C27_RegimePerStep ==
    \A i, j \in 1..Len(walk.all_signals) :
        i < j => walk.all_signals[i].regime_fetch < walk.all_signals[j].regime_fetch

-----------------------------------------------------------------------------
(* calibrator.py. Scores are integers; scale is in units of 0.0001, offset *)
(* in hundredths, rates in tenths of a percent.                            *)

\* round(k * n / d) for an even k, computed without leaving 32 bits.
RoundScaled(k, n, d) == k * (n \div d) + RoundHalfEven(k * (n % d), d)

\* max(0, min(100, x))
Clamp100(x) == Max2(0, Min2(100, x))

\* round(raw * scale + offset)
LinearValue(raw, scale, offset) == RoundHalfEven(raw * scale + offset * 100, 10000)

\* load_calibration() (lines 22-26)
load_calibration(file) == IF file.exists THEN file.params ELSE DefaultParams

\* save_calibration(params) (lines 29-32): the file is rewritten, newly stamped.
save_calibration(file, params) ==
    [exists |-> TRUE, params |-> params, updated_at |-> file.updated_at + 1]

\* The value of the first mapping entry whose bracket holds raw (lines 51-54).
RECURSIVE CurveLookup(_, _)
CurveLookup(mapping, raw) ==
    IF mapping = <<>> THEN raw
    ELSE IF Head(mapping).raw_min <= raw /\ raw <= Head(mapping).raw_max
    THEN Clamp100(Head(mapping).calibrated)
    ELSE CurveLookup(Tail(mapping), raw)

\* A bug that would return the linear value without clamping it.
apply_calibration_unclamped(raw, params) ==
    IF params.mode = "linear" THEN LinearValue(raw, params.scale, params.offset)
    ELSE raw

\* apply_calibration(raw_conviction, params) with params given (lines 39-55).
apply_calibration(raw, params) ==
    IF params.mode = "none" THEN raw
    ELSE IF params.mode = "linear"
    THEN Clamp100(LinearValue(raw, params.scale, params.offset))
    ELSE IF params.mode = "curve" THEN CurveLookup(params.mapping, raw)
    ELSE raw

\* run_backtest's conviction brackets (backtester.py lines 329-336).
Brackets ==
    << [min |-> 85, max |-> 100], [min |-> 75, max |-> 84], [min |-> 65, max |-> 74],
       [min |-> 60, max |-> 64],  [min |-> 50, max |-> 59], [min |-> 40, max |-> 49] >>

\* One entry of bracket_stats (backtester.py lines 338-363).
BracketStat(b, tally) ==
    IF tally.count = 0
    THEN [min |-> b.min, max |-> b.max, count |-> 0, wins |-> 0,
          win_rate |-> 0, tp1_rate |-> 0]
    ELSE [min |-> b.min, max |-> b.max, count |-> tally.count, wins |-> tally.wins,
          win_rate |-> RoundHalfEven(tally.wins * 1000, tally.count),
          tp1_rate |-> RoundHalfEven(tally.tp1s * 1000, tally.count)]

RECURSIVE SumCounts(_)
SumCounts(stats) == IF stats = <<>> THEN 0 ELSE Head(stats).count + SumCounts(Tail(stats))

\* The accuracy gap analysis (backtester.py lines 376-386): one entry per
\* bracket with signals; expected, actual_tp1_rate and gap in tenths of a
\* percent.
AccuracyGap(stats) ==
    LET NonEmpty(bs) == bs.count > 0
        with == SelectSeq(stats, NonEmpty)
    IN  [k \in 1..Len(with) |->
            LET bs       == with[k]
                expected == 5 * (bs.min + bs.max)
                gap      == bs.tp1_rate - expected
            IN  [min |-> bs.min, max |-> bs.max, expected |-> expected,
                 actual_tp1_rate |-> bs.tp1_rate, gap |-> gap,
                 verdict |-> IF Abs(gap) < 100 THEN "CALIBRATED"
                             ELSE IF gap < -100 THEN "OVER-CONFIDENT"
                             ELSE "UNDER-RATED"]]

\* run_backtest's report for the signals tallied per bracket (lines 325-405).
BacktestReport(tallies) ==
    LET stats == [k \in 1..Len(Brackets) |-> BracketStat(Brackets[k], tallies[k])]
    IN  IF SumCounts(stats) = 0
        THEN [ran |-> TRUE, error |-> "No signals generated", brackets |-> <<>>,
              signals |-> 0]
        ELSE [ran |-> TRUE, error |-> "", brackets |-> stats,
              signals |-> SumCounts(stats), accuracy_gap |-> AccuracyGap(stats)]

HasData(b) == b.count >= 3

RECURSIVE SumOver(_, _)
SumOver(f, n) == IF n = 0 THEN 0 ELSE f[n] + SumOver(f, n - 1)

\* np.polyfit(raw_arr, win_arr, 1) rounded as lines 116-118 round it: the
\* least-squares line through (bracket middle, win rate).
LinearFit(pts) ==
    LET n   == Len(pts)
        X   == [k \in 1..n |-> pts[k].min + pts[k].max]       \* twice the middle
        Y   == [k \in 1..n |-> pts[k].win_rate]
        SX  == SumOver(X, n)
        SY  == SumOver(Y, n)
        SXY == SumOver([k \in 1..n |-> X[k] * Y[k]], n)
        SXX == SumOver([k \in 1..n |-> X[k] * X[k]], n)
        N   == n * SXY - SX * SY
        D   == n * SXX - SX * SX
    IN  [scale  |-> RoundScaled(2000, N, D),
         offset |-> RoundScaled(10, SY * D - N * SX, n * D)]

\* The piecewise mapping (lines 132-142); win_points holds the win rates of
\* the brackets with data and is indexed by the bracket's place in brackets.
MappingOf(brackets, win_points) ==
    LET entry(k) ==
            [raw_min    |-> brackets[k].min,
             raw_max    |-> brackets[k].max,
             calibrated |-> RoundHalfEven(IF k <= Len(win_points) THEN win_points[k]
                                          ELSE brackets[k].win_rate, 10),
             tp1_rate   |-> brackets[k].tp1_rate,
             win_rate   |-> brackets[k].win_rate,
             count      |-> brackets[k].count]
        kept == SelectSeq([k \in 1..Len(brackets) |-> k],
                          LAMBDA k : HasData(brackets[k]))
    IN  [j \in 1..Len(kept) |-> entry(kept[j])]

\* A bug that would fit and save whatever the number of brackets with data.
RefusalSkipsBracketCheck(report) ==
    IF report.error # "" THEN report.error
    ELSE IF report.signals < 20 THEN "Only n signals - need 20+ for calibration"
    ELSE ""

\* The refusals of run_calibration (lines 83-102): the error message, "" if none.
Refusal(report) ==
    IF report.error # "" THEN report.error
    ELSE IF report.signals < 20 THEN "Only n signals - need 20+ for calibration"
    ELSE IF Len(SelectSeq(report.brackets, HasData)) < 2
    THEN "Not enough brackets with data for calibration"
    ELSE ""

\* The parameters run_calibration fits (lines 104-164).
FittedParams(report) ==
    LET pts == SelectSeq(report.brackets, HasData)
        win_points == [k \in 1..Len(pts) |-> pts[k].win_rate]
        fit == IF Len(pts) >= 2 THEN LinearFit(pts)
               ELSE [scale |-> 5000, offset |-> 0]
    IN  [mode |-> "linear", scale |-> fit.scale, offset |-> fit.offset,
         mapping |-> MappingOf(report.brackets, win_points)]

\* run_calibration, given the report of its backtest: the parameter file it
\* leaves and the dictionary it returns.
run_calibration(file, report) ==
    IF Refusal(report) # ""
    THEN [file |-> file, out |-> [error |-> Refusal(report)]]
    ELSE LET params == FittedParams(report)
         IN  [file |-> save_calibration(file, params),
              out  |-> [calibration |-> params,
                        preview |-> [r \in {40 + 5 * k : k \in 0..12} |->
                            Clamp100(LinearValue(r, params.scale, params.offset))]]]

\* Inputs. Signals of a backtest per bracket: none, 2, 3 or 20 of them.
Tallies ==
    { [count |-> 0,  wins |-> 0,  tp1s |-> 0],
      [count |-> 2,  wins |-> 1,  tp1s |-> 1],
      [count |-> 3,  wins |-> 2,  tp1s |-> 1],
      [count |-> 20, wins |-> 12, tp1s |-> 9] }
Reports == {BacktestReport(t) : t \in [1..Len(Brackets) -> Tallies]}

IdentityParams == [mode |-> "linear", scale |-> 10000, offset |-> 0, mapping |-> <<>>]
EarlierFit == [mode |-> "linear", scale |-> 5000, offset |-> 1250, mapping |-> <<>>]
CalibFiles ==
    { NoCalibFile,
      [exists |-> TRUE, params |-> IdentityParams, updated_at |-> 1],
      [exists |-> TRUE, params |-> EarlierFit, updated_at |-> 1] }

InitCalib ==
    /\ calib_file \in CalibFiles
    /\ bt = NoReport
    /\ raw_conviction = 0
    /\ call_params = NoParams
    /\ calib_out = NoOutput

\* run_calibration(): its backtest returns some report.
RunCalibration ==
    /\ calib_out = NoOutput
    /\ \E report \in Reports :
         LET r == run_calibration(calib_file, report)
         IN  /\ bt' = report
             /\ calib_file' = r.file
             /\ calib_out' = r.out
    /\ UNCHANGED <<raw_conviction, call_params, scoreVars, trackerVars, outcomeVars, overlapVars>>

NextCalib == RunCalibration

StartCalib == InitCalib /\ IdleScore /\ IdleTracker /\ IdleOutcome /\ IdleOverlap
SpecCalib == StartCalib /\ [][NextCalib]_vars

\* Signals of a backtest per bracket for the gap analysis: none, 15 of 20
\* reaching the first target, 13 of 25, 2 of 20.
GapTallies ==
    { [count |-> 0,  wins |-> 0,  tp1s |-> 0],
      [count |-> 20, wins |-> 15, tp1s |-> 15],
      [count |-> 25, wins |-> 13, tp1s |-> 13],
      [count |-> 20, wins |-> 2,  tp1s |-> 2] }

\* run_backtest(): the aggregation of the signals it collected.
RunBacktest ==
    /\ bt = NoReport
    /\ \E t \in [1..Len(Brackets) -> GapTallies] : bt' = BacktestReport(t)
    /\ UNCHANGED <<calib_file, raw_conviction, call_params, calib_out,
                   scoreVars, trackerVars, outcomeVars, overlapVars>>

NextBacktest == RunBacktest

StartBacktest == IdleCalib /\ IdleScore /\ IdleTracker /\ IdleOutcome /\ IdleOverlap
SpecBacktest == StartBacktest /\ [][NextBacktest]_vars

(***************************************************************************)
(* run_backtest's aggregation over the signals in the order the symbol     *)
(* list gives them (backtester.py lines 269-405).  P&L in hundredths of a  *)
(* percent, dates as day numbers.                                          *)
(***************************************************************************)

\* Signals one symbol's walk can yield: date, conviction and the outcome
\* fields the aggregation reads (lines 306-316).
SignalKinds ==
    { [date |-> 1, conviction |-> 88, pnl_pct |-> 300,  win |-> TRUE,  hit_tp1 |-> TRUE],
      [date |-> 2, conviction |-> 70, pnl_pct |-> 300,  win |-> TRUE,  hit_tp1 |-> TRUE],
      [date |-> 1, conviction |-> 70, pnl_pct |-> -200, win |-> FALSE, hit_tp1 |-> FALSE],
      [date |-> 2, conviction |-> 88, pnl_pct |-> 45,   win |-> TRUE,  hit_tp1 |-> FALSE] }

\* At most this many signals per symbol.
MaxPerSymbol == 2
SymbolYields == UNION { [1..n -> SignalKinds] : n \in 0..MaxPerSymbol }

\* The symbol lists of a call: every order of two or three symbols.
SymbolSets == { {"AAA", "BBB"}, {"AAA", "BBB", "CCC"} }
OrdersOf(S) ==
    { o \in [1..Cardinality(S) -> S] : \A i, j \in 1..Cardinality(S) : o[i] = o[j] => i = j }

\* all_signals after the loop over symbols (lines 272-318): each symbol's
\* signals in date order, the symbols in the order of the list.
RECURSIVE all_signals_of(_, _)
all_signals_of(symbols, yield) ==
    IF symbols = <<>> THEN <<>>
    ELSE LET sym == Head(symbols)
         IN  [k \in 1..Len(yield[sym]) |->
                 [symbol |-> sym, date |-> yield[sym][k].date,
                  conviction |-> yield[sym][k].conviction,
                  pnl_pct |-> yield[sym][k].pnl_pct, win |-> yield[sym][k].win,
                  hit_tp1 |-> yield[sym][k].hit_tp1]]
             \o all_signals_of(Tail(symbols), yield)

\* The signals of one bracket counted (lines 340-349).
TallyOf(b, all_signals) ==
    LET in_bracket == SelectSeq(all_signals,
                                LAMBDA sg : b.min <= sg.conviction /\ sg.conviction <= b.max)
    IN  [count |-> Len(in_bracket),
         wins  |-> Len(SelectSeq(in_bracket, LAMBDA sg : sg.win)),
         tp1s  |-> Len(SelectSeq(in_bracket, LAMBDA sg : sg.hit_tp1))]

\* max(all_signals, key=pnl_pct) and min(...) (lines 372-373): the first
\* signal of the list among those with the greatest (smallest) P&L.
BestOf(all_signals) ==
    all_signals[CHOOSE i \in 1..Len(all_signals) :
        /\ \A j \in 1..Len(all_signals) : all_signals[j].pnl_pct <= all_signals[i].pnl_pct
        /\ \A j \in 1..(i - 1) : all_signals[j].pnl_pct < all_signals[i].pnl_pct]
WorstOf(all_signals) ==
    all_signals[CHOOSE i \in 1..Len(all_signals) :
        /\ \A j \in 1..Len(all_signals) : all_signals[j].pnl_pct >= all_signals[i].pnl_pct
        /\ \A j \in 1..(i - 1) : all_signals[j].pnl_pct > all_signals[i].pnl_pct]

TradeOf(sg) == [symbol |-> sg.symbol, date |-> sg.date, pnl |-> sg.pnl_pct]

\* The report over all_signals (lines 324-405); rates in tenths of a percent.
AggregateReport(symbols, all_signals) ==
    IF all_signals = <<>>
    THEN [ran |-> TRUE, error |-> "No signals generated"]
    ELSE LET stats == [k \in 1..Len(Brackets) |->
                          BracketStat(Brackets[k], TallyOf(Brackets[k], all_signals))]
             total      == Len(all_signals)
             total_wins == Len(SelectSeq(all_signals, LAMBDA sg : sg.win))
             total_tp1  == Len(SelectSeq(all_signals, LAMBDA sg : sg.hit_tp1))
             total_pnl  == [k \in 1..total |-> all_signals[k].pnl_pct]
         IN  [ran |-> TRUE, error |-> "",
              summary |-> [total_signals    |-> total,
                           total_wins       |-> total_wins,
                           overall_win_rate |-> RoundHalfEven(total_wins * 1000, total),
                           overall_tp1_rate |-> RoundHalfEven(total_tp1 * 1000, total),
                           avg_pnl          |-> RoundHalfEven(SumOver(total_pnl, total), total),
                           best_trade       |-> TradeOf(BestOf(all_signals)),
                           worst_trade      |-> TradeOf(WorstOf(all_signals)),
                           symbols_tested   |-> symbols],
              brackets     |-> stats,
              accuracy_gap |-> AccuracyGap(stats),
              signals      |-> all_signals]

\* run_backtest(symbols): the walks yield some signals per symbol.
RunBacktestOn ==
    /\ bt = NoReport
    /\ \E S \in SymbolSets : \E symbols \in OrdersOf(S) : \E yield \in [S -> SymbolYields] :
          bt' = AggregateReport(symbols, all_signals_of(symbols, yield))
    /\ UNCHANGED <<calib_file, raw_conviction, call_params, calib_out,
                   scoreVars, trackerVars, outcomeVars, overlapVars>>

NextAggregate == RunBacktestOn

StartAggregate == IdleCalib /\ IdleScore /\ IdleTracker /\ IdleOutcome /\ IdleOverlap
SpecAggregate == StartAggregate /\ [][NextAggregate]_vars

\* The signals of a report as a run over the symbols in another order collects them.
Reordered(all_signals, symbols) ==
    all_signals_of(symbols,
        [sym \in {symbols[k] : k \in 1..Len(symbols)} |->
            SelectSeq(all_signals, LAMBDA sg : sg.symbol = sym)])

\* C26: the aggregate statistics do not depend on the order of the symbol
\* list: a run over any permutation of the symbols, collecting the same
\* signals per symbol, reports the same totals, rates, average P&L, best and
\* worst trade, the same bracket statistics and the same accuracy gaps.
C26_OrderIndependent ==
    (bt # NoReport /\ bt.error = "") =>
        \A symbols \in OrdersOf({bt.summary.symbols_tested[k] :
                                    k \in 1..Len(bt.summary.symbols_tested)}) :
            LET other == AggregateReport(symbols, Reordered(bt.signals, symbols))
            IN  /\ other.summary.total_signals = bt.summary.total_signals
                /\ other.summary.total_wins = bt.summary.total_wins
                /\ other.summary.overall_win_rate = bt.summary.overall_win_rate
                /\ other.summary.overall_tp1_rate = bt.summary.overall_tp1_rate
                /\ other.summary.avg_pnl = bt.summary.avg_pnl
                /\ other.summary.best_trade = bt.summary.best_trade
                /\ other.summary.worst_trade = bt.summary.worst_trade
                /\ other.brackets = bt.brackets
                /\ other.accuracy_gap = bt.accuracy_gap

\* Inputs of apply_calibration: raw scores up to MaxOvershoot outside 0..100.
MaxOvershoot == 10
RawScores == (0 - MaxOvershoot)..(100 + MaxOvershoot)
CurveParams ==
    [mode |-> "curve", scale |-> 10000, offset |-> 0,
     mapping |-> << [raw_min |-> 85, raw_max |-> 100, calibrated |-> 60,
                     tp1_rate |-> 450, win_rate |-> 600, count |-> 20],
                    [raw_min |-> 60, raw_max |-> 64, calibrated |-> 67,
                     tp1_rate |-> 333, win_rate |-> 667, count |-> 3] >>]
ParamChoices ==
    { IdentityParams, EarlierFit, DefaultParams, CurveParams,
      [mode |-> "linear", scale |-> 12500, offset |-> -1525, mapping |-> <<>>],
      [mode |-> "curve", scale |-> 10000, offset |-> 0, mapping |-> <<>>],
      [mode |-> "spline", scale |-> 10000, offset |-> 0, mapping |-> <<>>] }

InitApply ==
    /\ calib_file \in CalibFiles
    /\ bt = NoReport
    /\ raw_conviction \in RawScores
    /\ call_params \in ParamChoices \cup {NoParams}
    /\ calib_out = NoOutput

\* apply_calibration(raw_conviction, params); params None loads the file.
ApplyCalibration ==
    /\ calib_out = NoOutput
    /\ calib_out' =
         [value |-> apply_calibration(raw_conviction,
                        IF call_params = NoParams THEN load_calibration(calib_file)
                        ELSE call_params)]
    /\ UNCHANGED <<calib_file, bt, raw_conviction, call_params,
                   scoreVars, trackerVars, outcomeVars, overlapVars>>

NextApply == ApplyCalibration

StartApply == InitApply /\ IdleScore /\ IdleTracker /\ IdleOutcome /\ IdleOverlap
SpecApply == StartApply /\ [][NextApply]_vars

\* The parameters a call of apply_calibration works with.
ParamsInEffect ==
    IF call_params # NoParams THEN call_params
    ELSE IF calib_file.exists THEN calib_file.params ELSE DefaultParams

IsIdentityLinear(params) ==
    params.mode = "linear" /\ params.scale = 10000 /\ params.offset = 0

\* C9: apply_calibration with mode linear, scale 1.0 and offset 0 returns an
\* integer raw score in 0..100 unchanged, and a raw score outside that range
\* clamped to [0, 100].
C9_IdentityCalibration ==
    (calib_out # NoOutput /\ IsIdentityLinear(ParamsInEffect)) =>
        /\ raw_conviction \in 0..100 => calib_out.value = raw_conviction
        /\ raw_conviction < 0 => calib_out.value = 0
        /\ raw_conviction > 100 => calib_out.value = 100

\* The identity calibration, loaded from the parameter file, clamped 105.
C9_Witness ==
    /\ calib_out # NoOutput
    /\ call_params = NoParams /\ IsIdentityLinear(ParamsInEffect)
    /\ raw_conviction = 105
    /\ calib_out.value = 100

\* The backtest failed, or gave fewer than 20 signals, or fewer than two
\* brackets holding at least 3 signals.
TooLittleData(report) ==
    \/ report.error # ""
    \/ report.signals < 20
    \/ Cardinality({k \in 1..Len(report.brackets) : report.brackets[k].count >= 3}) < 2

\* C10: when the backtest behind run_calibration gives an error, fewer than 20
\* signals, or fewer than two brackets with at least 3 signals, run_calibration
\* returns an error result and leaves the persisted parameters as they were.
C10_RefusalKeepsParams ==
    [][(calib_out = NoOutput /\ calib_out' # NoOutput /\ TooLittleData(bt')) =>
        /\ DOMAIN calib_out' = {"error"}
        /\ calib_out'.error # ""
        /\ calib_file' = calib_file]_vars

\* Twenty signals or more in one bracket only: refused, the earlier fit kept.
C10_Witness ==
    /\ calib_out # NoOutput
    /\ bt.error = "" /\ bt.signals >= 20
    /\ DOMAIN calib_out = {"error"}
    /\ calib_out.error = "Not enough brackets with data for calibration"
    /\ calib_file = [exists |-> TRUE, params |-> EarlierFit, updated_at |-> 1]

\* C25: the piecewise mapping of the parameters run_calibration produces has
\* one entry for each bracket of the backtest with at least 3 signals, in the
\* brackets' order, and each entry's calibrated value is the rounded win rate
\* of that same bracket, whichever other brackets are empty or hold fewer
\* than 3 signals.
C25_MappingOwnBracket ==
    (calib_out # NoOutput /\ "calibration" \in DOMAIN calib_out) =>
        LET mapping == calib_out.calibration.mapping
            pts     == SelectSeq(bt.brackets, HasData)
        IN  /\ Len(mapping) = Len(pts)
            /\ \A j \in 1..Len(mapping) :
                  /\ mapping[j].raw_min = pts[j].min
                  /\ mapping[j].raw_max = pts[j].max
                  /\ mapping[j].win_rate = pts[j].win_rate
                  /\ mapping[j].calibrated = RoundHalfEven(pts[j].win_rate, 10)

\* C17: every bracket of a report that holds signals has a gap entry whose
\* gap is the realized take-profit-1 rate minus the bracket's midpoint, with
\* verdict CALIBRATED when the gap is within 10 points, OVER-CONFIDENT when
\* the rate falls short of the midpoint by 10 points or more, and UNDER-RATED
\* only when it exceeds the midpoint by 10 points or more.
C17_Verdicts ==
    (bt # NoReport /\ bt.error = "") =>
        /\ Len(bt.accuracy_gap) = Cardinality({k \in 1..Len(bt.brackets) : bt.brackets[k].count > 0})
        /\ \A k \in 1..Len(bt.accuracy_gap) :
              LET g == bt.accuracy_gap[k]
              IN  /\ \E j \in 1..Len(bt.brackets) :
                        /\ bt.brackets[j].min = g.min /\ bt.brackets[j].count > 0
                        /\ g.gap = bt.brackets[j].tp1_rate - 5 * (g.min + g.max)
                  /\ Abs(g.gap) < 100 => g.verdict = "CALIBRATED"
                  /\ g.gap <= -100 => g.verdict = "OVER-CONFIDENT"
                  /\ g.verdict = "UNDER-RATED" => g.gap >= 100

=============================================================================
